---------------------------- MODULE Spec2Model ----------------------------
(***************************************************************************)
(* Dayflow: the capture-to-timeline pipeline.                              *)
(*                                                                         *)
(* The parts of the repository are modelled each with a specification      *)
(* over the shared variables:                                              *)
(*   Spec            dayflow_windows: AI timeline worker, card replace     *)
(*   StoreSpec       dayflow_windows: screenshot rows, storage limit       *)
(*   CaptureOnceSpec dayflow_windows: the steps of capture_once            *)
(*   CaptureSpec     dayflow_windows: ScreenCaptureService start/stop/loop *)
(*                   (FairCaptureSpec: with fair loop threads;             *)
(*                    ListenerSpec: with listeners that may raise)         *)
(*   IntervalSpec    dayflow_windows: the capture-interval setting         *)
(*   TimelineSpec    dayflow_windows: build_timeline_cards                 *)
(*   NormalizeSpec, SampleSpec, ParseSpec                                  *)
(*                   dayflow_windows: helpers of ai.py                     *)
(*   EventSpec       dayflow_windows: the event queue and _drain_events    *)
(*   BatchSpec       dayflow-python: TimelineGenerator batches and cards   *)
(*                   (NoDataSpec: next to days without screenshots)        *)
(*   CleanupSpec     dayflow-python: CleanupService                        *)
(*                                                                         *)
(* Text is modelled as a sequence of one-character strings, so that        *)
(* strip(), the HH:MM check and ORDER BY are computed, not assumed.        *)
(* Time is counted in units of 50 ms (the loop's epsilon).                 *)
(***************************************************************************)
EXTENDS Integers, Sequences, FiniteSets, TLC

VARIABLES
    \* ---- dayflow_windows/database.py: one DayflowWindowsDatabase ----
    dbLock,              \* self._lock: "free" or the thread holding it
    ai_timeline_cards,   \* committed rows of ai_timeline_cards, per day, in id order
    ai_daily_summaries,  \* committed rows of ai_daily_summaries, per day
    conn,                \* per thread: the open connection's uncommitted view
    screenshots,         \* committed rows of the screenshots table
    files,               \* media files present on disk (by path)
    nextId,              \* AUTOINCREMENT counter of screenshots
    \* ---- dayflow_windows/app.py: AI worker threads, event queue, UI thread ----
    wpc, wDay, wCards, wSummary, wIdx, wGen,
    events,
    uipc, uiDay, uiRows,
    invocations,
    history,             \* per day: every full card list the day was meant to hold
    interval_var,        \* the number in the capture-interval entry (self.interval_var)
    \* ---- dayflow_windows/timeline.py: one build_timeline_cards call ----
    tlpc,                \* position in build_timeline_cards
    tl_ordered,          \* ordered
    tl_fallback,         \* fallback
    tl_index,            \* index of the loop over ordered (from 1)
    tl_grouped,          \* grouped
    tl_cards,            \* cards, the list returned
    \* ---- dayflow_windows/ai.py: one call of a module-level helper ----
    hpc,                 \* "idle", the helper that was called, or how it ended
    hArg,                \* the argument of the call
    hRet,                \* the value returned
    log_output,          \* app.py: the events _drain_events has handled, in order
    \* ---- database.py callers: insert_screenshot / enforce_storage_limit ----
    spc, sArg, sRows, sCurrent, sRemoved, sRet,
    \* ---- dayflow_windows/capture.py: ScreenCaptureService ----
    thread,              \* self._thread: a loop thread or "none"
    stop_event,          \* self._stop_event is set
    interval_seconds, on_sample, on_error,
    lpc,                 \* per loop thread: position in _run_capture_loop
    next_due,            \* per loop thread: next_due - time.monotonic()
    cap_time,            \* per loop thread: time the pass's capture_once took
    lastCall,            \* the listener call made last
    cpc,                 \* the UI thread's position in start / stop
    joining,             \* stop's local variable thread
    join_left,           \* time left of thread.join(timeout)
    started,             \* the value start returns
    stopped,             \* loop threads for which a stop call has returned
    \* ---- dayflow-python: TimelineGenerator, Storage ----
    chunks,              \* rows of the chunks table
    batches,             \* status of every row of the batches table, by batch
    timeline_cards,      \* rows of the timeline_cards table
    last_analysis_time,  \* config value, 0 when never set
    pyNow,               \* datetime.now().timestamp()
    apc,                 \* per analysis thread: position in _analyze_recent_chunks
    aBatch, aChunks, aResults, aIdx,
    aNow,                \* _analysis_loop's local variable now
    \* ---- dayflow-python: core/cleanup.py, CleanupService ----
    clean_pc,            \* position of the cleanup thread, "off" when there is none
    wall,                \* time.time(), in hours
    clean_now,           \* _cleanup_loop's local variable now
    clean_stop,          \* self._stop_event is set
    last_cleanup_time,   \* config value, 0 when never set
    cutoff_time,         \* _run_cleanup's cutoff_time
    clean_chunks,        \* the chunks of the run that are still to be unlinked
    clean_files,         \* start_time of the chunks whose file the run unlinked
    clean_rows           \* the rows the run's delete_old_chunks deleted

dbVars  == <<dbLock, ai_timeline_cards, ai_daily_summaries, conn, screenshots, files, nextId>>
aiVars  == <<wpc, wDay, wCards, wSummary, wIdx, wGen, events, uipc, uiDay, uiRows,
             invocations, history, interval_var, tlpc, tl_ordered, tl_fallback,
             tl_index, tl_grouped, tl_cards, hpc, hArg, hRet,
             log_output>>
fnVars  == <<hpc, hArg, hRet, log_output>>
uiVars  == <<interval_var, tlpc, tl_ordered, tl_fallback, tl_index, tl_grouped, tl_cards,
             fnVars>>
stVars  == <<spc, sArg, sRows, sCurrent, sRemoved, sRet>>
capVars == <<thread, stop_event, interval_seconds, on_sample, on_error, lpc,
             next_due, cap_time, lastCall, cpc, joining, join_left, started,
             stopped>>
cleanVars == <<clean_pc, wall, clean_now, clean_stop, last_cleanup_time, cutoff_time,
               clean_chunks, clean_files, clean_rows>>
pyVars  == <<chunks, batches, timeline_cards, last_analysis_time, pyNow,
             apc, aBatch, aChunks, aResults, aIdx, aNow, cleanVars>>
vars    == <<dbVars, aiVars, stVars, capVars, pyVars>>

-----------------------------------------------------------------------------
(* Text helpers *)

Chars == <<" ", "0", "1", "2", "3", "4", "5", "6", "7", "8", "9", ":",
           "M", "O", "W", "a", "b", "d", "e", "h", "i", "k", "l", "o", "r", "t">>

CharRank(c) == CHOOSE i \in 1..Len(Chars) : Chars[i] = c

Digits == {"0", "1", "2", "3", "4", "5", "6", "7", "8", "9"}

DigitVal(c) == CharRank(c) - 2

RECURSIVE LStrip(_)
LStrip(s) == IF s # <<>> /\ Head(s) = " " THEN LStrip(Tail(s)) ELSE s

RECURSIVE RStrip(_)
RStrip(s) == IF s # <<>> /\ s[Len(s)] = " " THEN RStrip(SubSeq(s, 1, Len(s) - 1)) ELSE s

\* str.strip()
Strip(s) == RStrip(LStrip(s))

\* Python's ordering of str, which SQLite's BINARY collation shares on ASCII
RECURSIVE StrLess(_, _)
StrLess(a, b) ==
    IF b = <<>> THEN FALSE
    ELSE IF a = <<>> THEN TRUE
    ELSE IF Head(a) # Head(b) THEN CharRank(Head(a)) < CharRank(Head(b))
    ELSE StrLess(Tail(a), Tail(b))


-----------------------------------------------------------------------------
(* dayflow_windows/ai.py: the AI response and its normalization *)

Days == {"d1", "d2"}

NoRow == <<"norow">>
Raise == <<"raise">>

s0800  == <<" ", "0", "8", ":", "0", "0">>
s0830  == <<"0", "8", ":", "3", "0">>
s0900  == <<"0", "9", ":", "0", "0">>
s0930  == <<"0", "9", ":", "3", "0">>
sBad   == <<"b", "a", "d">>
sWork  == <<"W", "o", "r", "k">>
sMail  == <<" ", "M", "a", "i", "l", " ">>
sOther == <<"O", "t", "h", "e", "r">>
sOk    == <<"o", "k", " ">>

\* dict.get(key, default)
Get(d, k, default) == IF k \in DOMAIN d THEN d[k] ELSE default

FormatTwo(n) == <<Chars[(n \div 10) + 2], Chars[(n % 10) + 2]>>

IsDigit(x) == x # <<>> /\ \A i \in 1..Len(x) : x[i] \in Digits

\* _norm_hhmm: "" when the value is not HH:MM; Raise where int() raises
NormHHMM(value) ==
    LET v == Strip(value)
    IN  IF Len(v) = 5 /\ v[3] = ":" /\ IsDigit(SelectSeq(v, LAMBDA c : c # ":"))
        THEN IF IsDigit(SubSeq(v, 1, 2)) /\ IsDigit(SubSeq(v, 4, 5))
             THEN LET hh == 10 * DigitVal(v[1]) + DigitVal(v[2])
                      mm == 10 * DigitVal(v[4]) + DigitVal(v[5])
                  IN  IF hh <= 23 /\ mm <= 59
                      THEN FormatTwo(hh) \o <<":">> \o FormatTwo(mm)
                      ELSE <<>>
             ELSE Raise
        ELSE <<>>

\* isinstance(entry, dict): a non-dict entry is modelled as [nondict |-> <<>>]
IsDict(entry) == "nondict" \notin DOMAIN entry

\* one iteration of the loop of _normalize_cards: the cards it appends (none
\* or one), or raised
NormalizeEntry(entry) ==
    IF ~IsDict(entry) THEN [raised |-> FALSE, cards |-> <<>>]
    ELSE LET start == NormHHMM(Strip(Get(entry, "start", <<>>)))
             end == NormHHMM(Strip(Get(entry, "end", <<>>)))
             title == Strip(Get(entry, "title", <<>>))
             summary == Strip(Get(entry, "summary", <<>>))
             cat == Strip(Get(entry, "category", sOther))
             category == IF cat = <<>> THEN sOther ELSE cat
         IN  IF start = Raise \/ end = Raise THEN [raised |-> TRUE, cards |-> <<>>]
             ELSE IF start = <<>> \/ end = <<>> \/ title = <<>>
                  THEN [raised |-> FALSE, cards |-> <<>>]
                  ELSE [raised |-> FALSE,
                        cards |-> <<[start |-> start, end |-> end, title |-> title,
                                     summary |-> summary, category |-> category]>>]

\* _normalize_cards of a list
RECURSIVE NormalizeCards(_)
NormalizeCards(raw_cards) ==
    IF raw_cards = <<>> THEN [raised |-> FALSE, cards |-> <<>>]
    ELSE LET first == NormalizeEntry(Head(raw_cards))
             rest == NormalizeCards(Tail(raw_cards))
         IN  [raised |-> first.raised \/ rest.raised, cards |-> first.cards \o rest.cards]

eWork == [start |-> s0900, end |-> s0930, title |-> sWork, summary |-> <<>>,
          category |-> sWork]
eMail == [start |-> s0800, end |-> s0830, title |-> sMail]
eBad  == [start |-> sBad, end |-> s0930, title |-> sWork]
eText == [nondict |-> <<>>]

\* int("1:") raises ValueError in _norm_hhmm
eColon == [start |-> <<"1", ":", ":", "0", "0">>, end |-> s0930, title |-> sWork]

\* What the provider call can come to: a configuration error before any request
\* (ValueError), _http_post_json failing, a reply without text, text that is
\* not JSON, or a parsed JSON object. A "cards" value that is no list is
\* islist = FALSE.
FailedResponses ==
    {[config |-> "missing_model", http |-> "none", text |-> "none"],
     [config |-> "ok", http |-> "http_error", text |-> "none"],
     [config |-> "ok", http |-> "url_error", text |-> "none"],
     [config |-> "ok", http |-> "non_json", text |-> "none"],
     [config |-> "ok", http |-> "ok", text |-> "missing"],
     [config |-> "ok", http |-> "ok", text |-> "invalid_json"]}

ParsedObjects ==
    {[islist |-> FALSE, cards |-> <<>>, daily_summary |-> sOk],
     [islist |-> TRUE, cards |-> <<eBad, eText>>, daily_summary |-> sOk],
     [islist |-> TRUE, cards |-> <<eWork>>],
     [islist |-> TRUE, cards |-> <<eWork, eBad, eMail>>, daily_summary |-> sOk],
     [islist |-> TRUE, cards |-> <<eWork, eColon>>, daily_summary |-> sOk]}

Responses ==
    FailedResponses
    \cup {[config |-> "ok", http |-> "ok", text |-> "json", parsed |-> p] : p \in ParsedObjects}

\* AITimelineGenerator.generate: raised, or the AIGenerationResult
Generate(resp) ==
    IF resp.config # "ok" \/ resp.http # "ok" \/ resp.text # "json"
    THEN [raised |-> TRUE, cards |-> <<>>, daily_summary |-> <<>>]
    ELSE LET n == IF resp.parsed.islist THEN NormalizeCards(resp.parsed.cards)
                  ELSE [raised |-> FALSE, cards |-> <<>>]
         IN  [raised |-> n.raised, cards |-> n.cards,
              daily_summary |-> Strip(Get(resp.parsed, "daily_summary", <<>>))]

-----------------------------------------------------------------------------
(* dayflow_windows/database.py: the AI timeline tables *)

Workers == {"w1", "w2"}

NoConn == [open |-> FALSE]

\* the row replace_ai_timeline_for_day inserts for a card
StoredCard(card) ==
    [start |-> Strip(Get(card, "start", <<>>)),
     end |-> Strip(Get(card, "end", <<>>)),
     title |-> Strip(Get(card, "title", <<>>)),
     summary |-> Strip(Get(card, "summary", <<>>)),
     category |-> Strip(Get(card, "category", <<>>))]

StoredCards(cards) == [i \in 1..Len(cards) |-> StoredCard(cards[i])]

\* ORDER BY start_time ASC, id ASC of rows given in id order
RECURSIVE InsertByStart(_, _)
InsertByStart(sorted, row) ==
    IF sorted = <<>> THEN <<row>>
    ELSE IF StrLess(row.start, Head(sorted).start) THEN <<row>> \o sorted
    ELSE <<Head(sorted)>> \o InsertByStart(Tail(sorted), row)

RECURSIVE SortRows(_)
SortRows(rows) ==
    IF rows = <<>> THEN <<>>
    ELSE InsertByStart(SortRows(SubSeq(rows, 1, Len(rows) - 1)), rows[Len(rows)])

\* replace_ai_timeline_for_day, line 182: take the lock, open a connection
ReplaceLock(w) ==
    /\ wpc[w] = "replace_lock"
    /\ dbLock = "free"
    /\ dbLock' = w
    /\ conn' = [conn EXCEPT ![w] = [open |-> TRUE, cards |-> ai_timeline_cards,
                                    summaries |-> ai_daily_summaries]]
    /\ history' = [history EXCEPT ![wDay[w]] = @ \cup {SortRows(StoredCards(wCards[w]))}]
    /\ wpc' = [wpc EXCEPT ![w] = "replace_delete"]
    /\ UNCHANGED <<uiVars, ai_timeline_cards, ai_daily_summaries, screenshots, files, nextId,
                   wDay, wCards, wSummary, wIdx, wGen, events, uipc, uiDay, uiRows,
                   invocations, stVars, capVars, pyVars>>

\* a replace whose DELETE runs in a with block of its own, which commits it
\* and releases the lock before the inserts
SplitReplaceDelete(w) ==
    /\ wpc[w] = "replace_delete"
    /\ conn' = [conn EXCEPT ![w].cards[wDay[w]] = <<>>]
    /\ ai_timeline_cards' = [ai_timeline_cards EXCEPT ![wDay[w]] = <<>>]
    /\ dbLock' = "free"
    /\ wIdx' = [wIdx EXCEPT ![w] = 1]
    /\ wpc' = [wpc EXCEPT ![w] = "replace_insert"]
    /\ UNCHANGED <<uiVars, ai_daily_summaries, screenshots, files,
                   nextId, wDay, wCards, wSummary, wGen, events, uipc, uiDay, uiRows,
                   invocations, history, stVars, capVars, pyVars>>

\* a replace without the DELETE: the new cards are added to the day's cards
KeepOldCards(w) ==
    /\ wpc[w] = "replace_delete"
    /\ wIdx' = [wIdx EXCEPT ![w] = 1]
    /\ wpc' = [wpc EXCEPT ![w] = "replace_insert"]
    /\ UNCHANGED <<uiVars, dbVars, wDay, wCards, wSummary, wGen, events, uipc, uiDay, uiRows,
                   invocations, history, stVars, capVars, pyVars>>

\* line 183: DELETE FROM ai_timeline_cards WHERE day = ?, inside the transaction
ReplaceDelete(w) ==
    /\ wpc[w] = "replace_delete"
    /\ conn' = [conn EXCEPT ![w].cards[wDay[w]] = <<>>]
    /\ wIdx' = [wIdx EXCEPT ![w] = 1]
    /\ wpc' = [wpc EXCEPT ![w] = "replace_insert"]
    /\ UNCHANGED <<uiVars, dbLock, ai_timeline_cards, ai_daily_summaries, screenshots, files,
                   nextId, wDay, wCards, wSummary, wGen, events, uipc, uiDay, uiRows,
                   invocations, history, stVars, capVars, pyVars>>

\* lines 184-200: one INSERT of the loop over cards
ReplaceInsert(w) ==
    /\ wpc[w] = "replace_insert"
    /\ wIdx[w] <= Len(wCards[w])
    /\ conn' = [conn EXCEPT ![w].cards[wDay[w]] = Append(@, StoredCard(wCards[w][wIdx[w]]))]
    /\ wIdx' = [wIdx EXCEPT ![w] = @ + 1]
    /\ UNCHANGED <<uiVars, dbLock, ai_timeline_cards, ai_daily_summaries, screenshots, files,
                   nextId, wpc, wDay, wCards, wSummary, wGen, events, uipc, uiDay,
                   uiRows, invocations, history, stVars, capVars, pyVars>>

\* lines 201-210: upsert of the day's summary
ReplaceSummary(w) ==
    /\ wpc[w] = "replace_insert"
    /\ wIdx[w] > Len(wCards[w])
    /\ conn' = [conn EXCEPT ![w].summaries[wDay[w]] = Strip(wSummary[w])]
    /\ wpc' = [wpc EXCEPT ![w] = "replace_commit"]
    /\ UNCHANGED <<uiVars, dbLock, ai_timeline_cards, ai_daily_summaries, screenshots, files,
                   nextId, wDay, wCards, wSummary, wIdx, wGen, events, uipc, uiDay,
                   uiRows, invocations, history, stVars, capVars, pyVars>>

\* line 211 and the exit of the with block: commit, close, release the lock
ReplaceCommit(w) ==
    /\ wpc[w] = "replace_commit"
    /\ ai_timeline_cards' = conn[w].cards
    /\ ai_daily_summaries' = conn[w].summaries
    /\ conn' = [conn EXCEPT ![w] = NoConn]
    /\ dbLock' = "free"
    /\ wpc' = [wpc EXCEPT ![w] = "put_done"]
    /\ UNCHANGED <<uiVars, screenshots, files, nextId, wDay, wCards, wSummary, wIdx, wGen,
                   events, uipc, uiDay, uiRows, invocations, history, stVars, capVars,
                   pyVars>>

\* a statement of the transaction raises sqlite3.Error: the with block closes the
\* connection without a commit and releases the lock; the worker's except clause
\* (app.py 1762-1763) reports it
ReplaceFail(w) ==
    /\ wpc[w] \in {"replace_delete", "replace_insert", "replace_commit"}
    /\ conn' = [conn EXCEPT ![w] = NoConn]
    /\ dbLock' = "free"
    /\ events' = Append(events, "ai_error")
    /\ wpc' = [wpc EXCEPT ![w] = "idle"]
    /\ wGen' = [wGen EXCEPT ![w] = "none"]
    /\ wCards' = [wCards EXCEPT ![w] = <<>>]
    /\ wSummary' = [wSummary EXCEPT ![w] = <<>>]
    /\ wIdx' = [wIdx EXCEPT ![w] = 1]
    /\ UNCHANGED <<uiVars, ai_timeline_cards, ai_daily_summaries, screenshots, files, nextId,
                   wDay, uipc, uiDay, uiRows, invocations, history, stVars, capVars,
                   pyVars>>

\* list_ai_timeline_for_day: the UI thread asks for a day's cards ...
UiList(d) ==
    /\ uipc = "idle"
    /\ uipc' = "list_wait"
    /\ uiDay' = d
    /\ UNCHANGED <<uiVars, dbVars, wpc, wDay, wCards, wSummary, wIdx, wGen, events, uiRows,
                   invocations, history, stVars, capVars, pyVars>>

\* ... and reads them under the lock (lines 214-235)
ListSelect ==
    /\ uipc = "list_wait"
    /\ dbLock = "free"
    /\ uiRows' = SortRows(ai_timeline_cards[uiDay])
    /\ uipc' = "idle"
    /\ UNCHANGED <<uiVars, dbVars, wpc, wDay, wCards, wSummary, wIdx, wGen, events, uiDay,
                   invocations, history, stVars, capVars, pyVars>>

-----------------------------------------------------------------------------
(* dayflow_windows/database.py: screenshot rows and the storage limit *)

\* threads that use the screenshots table: the capture loop, a manual capture
\* worker, and the UI thread (cleanup)
StoreThreads == {"cap", "man", "ui"}
CaptureThreads == {"cap", "man"}

\* capture instants (captured_at), one on each day
Stamps == {1, 2}
DayOf(ts) == IF ts = 1 THEN "d1" ELSE "d2"

\* paths.screenshot_path: the file of a capture is named by its instant
PathOf(ts) == ts

\* media file sizes in bytes
Sizes == {0, 1, 2}

\* max_bytes arguments of enforce_storage_limit, and values of the storage
\* limit setting
Limits == {-1, 0, 1, 3}

\* how many samples are inserted in a run
MaxSamples == 2

-----------------------------------------------------------------------------
(* dayflow_windows/app.py: _generate_ai_timeline, its worker, _drain_events *)

\* how many times the user asks for an AI timeline
MaxInvocations == 2

\* list_screenshots_for_date(day), as far as the handler uses it
HasScreenshots(d) == \E r \in screenshots : DayOf(r.captured_at) = d

\* _generate_ai_timeline, lines 1739-1743: no screenshots for the selected day
GenerateNoScreenshots(d) ==
    /\ uipc = "idle"
    /\ dbLock = "free"
    /\ invocations < MaxInvocations
    /\ ~HasScreenshots(d)
    /\ invocations' = invocations + 1
    /\ UNCHANGED <<uiVars, dbVars, wpc, wDay, wCards, wSummary, wIdx, wGen, events, uipc, uiDay,
                   uiRows, history, stVars, capVars, pyVars>>

\* _generate_ai_timeline, lines 1745-1765: start the worker thread
GenerateSpawn(w, d) ==
    /\ uipc = "idle"
    /\ dbLock = "free"
    /\ invocations < MaxInvocations
    /\ HasScreenshots(d)
    /\ wpc[w] = "idle"
    /\ invocations' = invocations + 1
    /\ wpc' = [wpc EXCEPT ![w] = "generate"]
    /\ wDay' = [wDay EXCEPT ![w] = d]
    /\ wGen' = [wGen EXCEPT ![w] = "running"]
    /\ wCards' = [wCards EXCEPT ![w] = <<>>]
    /\ wSummary' = [wSummary EXCEPT ![w] = <<>>]
    /\ wIdx' = [wIdx EXCEPT ![w] = 1]
    /\ UNCHANGED <<uiVars, dbVars, events, uipc, uiDay, uiRows, history, stVars, capVars, pyVars>>

\* a worker that swallows the failure and writes an empty result for the day
SwallowGenerateFail(w) ==
    /\ wpc[w] = "generate"
    /\ \E resp \in Responses : Generate(resp).raised
    /\ wGen' = [wGen EXCEPT ![w] = "failed"]
    /\ wpc' = [wpc EXCEPT ![w] = "replace_lock"]
    /\ UNCHANGED <<uiVars, dbVars, wDay, wCards, wSummary, wIdx, events, uipc, uiDay, uiRows,
                   invocations, history, stVars, capVars, pyVars>>

\* _worker, lines 1751-1759 then 1762-1763: generate raises, ai_error is queued
WorkerGenerateFail(w) ==
    /\ wpc[w] = "generate"
    /\ \E resp \in Responses : Generate(resp).raised
    /\ wGen' = [wGen EXCEPT ![w] = "failed"]
    /\ events' = Append(events, "ai_error")
    /\ wpc' = [wpc EXCEPT ![w] = "idle"]
    /\ UNCHANGED <<uiVars, dbVars, wDay, wCards, wSummary, wIdx, uipc, uiDay, uiRows,
                   invocations, history, stVars, capVars, pyVars>>

\* _worker, lines 1751-1760: generate returns and the result goes to
\* replace_ai_timeline_for_day
WorkerGenerateOk(w) ==
    /\ wpc[w] = "generate"
    /\ \E resp \in Responses :
         LET result == Generate(resp)
         IN  /\ ~result.raised
             /\ wCards' = [wCards EXCEPT ![w] = result.cards]
             /\ wSummary' = [wSummary EXCEPT ![w] = result.daily_summary]
    /\ wGen' = [wGen EXCEPT ![w] = "ok"]
    /\ wpc' = [wpc EXCEPT ![w] = "replace_lock"]
    /\ UNCHANGED <<uiVars, dbVars, wDay, wIdx, events, uipc, uiDay, uiRows, invocations,
                   history, stVars, capVars, pyVars>>

\* _worker, line 1761
WorkerPutDone(w) ==
    /\ wpc[w] = "put_done"
    /\ events' = Append(events, "ai_done")
    /\ wpc' = [wpc EXCEPT ![w] = "idle"]
    /\ wGen' = [wGen EXCEPT ![w] = "none"]
    /\ wCards' = [wCards EXCEPT ![w] = <<>>]
    /\ wSummary' = [wSummary EXCEPT ![w] = <<>>]
    /\ wIdx' = [wIdx EXCEPT ![w] = 1]
    /\ UNCHANGED <<uiVars, dbVars, wDay, uipc, uiDay, uiRows, invocations, history, stVars,
                   capVars, pyVars>>

\* _drain_events, one event of the loop: ai_done refreshes the AI timeline of
\* the selected day (list_ai_timeline_for_day), ai_error only logs
DrainEvent(d) ==
    /\ uipc = "idle"
    /\ events # <<>>
    /\ events' = Tail(events)
    /\ IF Head(events) = "ai_done"
       THEN uipc' = "list_wait" /\ uiDay' = d
       ELSE UNCHANGED <<uipc, uiDay>>
    /\ UNCHANGED <<uiVars, dbVars, wpc, wDay, wCards, wSummary, wIdx, wGen, uiRows,
                   invocations, history, stVars, capVars, pyVars>>

-----------------------------------------------------------------------------
(* Initial states *)

CardWork == StoredCard(eWork)
CardMail == StoredCard(NormalizeEntry(eMail).cards[1])

InitDb ==
    /\ dbLock = "free"
    /\ conn = [t \in Workers \cup StoreThreads |-> NoConn]

InitAI ==
    /\ ai_timeline_cards = [d \in Days |-> <<CardMail>>]
    /\ ai_daily_summaries = [d \in Days |-> IF d = "d1" THEN <<"o", "k">> ELSE NoRow]
    /\ wpc = [w \in Workers |-> "idle"]
    /\ wDay = [w \in Workers |-> "d1"]
    /\ wCards = [w \in Workers |-> <<>>]
    /\ wSummary = [w \in Workers |-> <<>>]
    /\ wIdx = [w \in Workers |-> 1]
    /\ wGen = [w \in Workers |-> "none"]
    /\ events = <<>>
    /\ uipc = "idle"
    /\ uiDay = "d1"
    /\ uiRows = <<CardMail>>
    /\ invocations = 0
    /\ history = [d \in Days |-> {<<CardMail>>}]
    /\ interval_var = 200
    /\ tlpc = "idle"
    /\ tl_ordered = <<>>
    /\ tl_fallback = 0
    /\ tl_index = 0
    /\ tl_grouped = <<>>
    /\ tl_cards = <<>>
    /\ hpc = "idle"
    /\ hArg = <<>>
    /\ hRet = <<>>
    /\ log_output = <<>>

InitStore ==
    /\ spc = [t \in StoreThreads |-> "idle"]
    /\ sArg = [t \in StoreThreads |-> 0]
    /\ sRows = [t \in StoreThreads |-> {}]
    /\ sCurrent = [t \in StoreThreads |-> 0]
    /\ sRemoved = [t \in StoreThreads |-> <<0, 0>>]
    /\ sRet = [t \in StoreThreads |-> <<0, 0>>]

\* the loop threads a ScreenCaptureService creates
Loops == {"t1", "t2"}

\* ScreenCaptureService.__init__; time is counted in units of 50 ms
InitCapture ==
    /\ thread = "none"
    /\ stop_event = FALSE
    /\ interval_seconds = 200
    /\ on_sample = "none"
    /\ on_error = "none"
    /\ lpc = [l \in Loops |-> "unborn"]
    /\ next_due = [l \in Loops |-> 0]
    /\ cap_time = [l \in Loops |-> 0]
    /\ lastCall = "none"
    /\ cpc = "idle"
    /\ joining = "none"
    /\ join_left = 0
    /\ started = "none"
    /\ stopped = {}

\* threads that run _analyze_recent_chunks: the periodic loop and analyze_now
Analyzers == {"loop", "now"}

\* analysis_interval, in units of one chunk length
AnalysisInterval == 2

\* a new Storage and TimelineGenerator, at a time when the clock is past one
\* analysis interval
\* no CleanupService thread, nothing cleaned yet
InitClean ==
    /\ clean_pc = "off"
    /\ wall = 0
    /\ clean_now = 0
    /\ clean_stop = FALSE
    /\ last_cleanup_time = 0
    /\ cutoff_time = 0
    /\ clean_chunks = <<>>
    /\ clean_files = {}
    /\ clean_rows = {}

InitPy ==
    /\ chunks = {}
    /\ batches = <<>>
    /\ timeline_cards = {}
    /\ last_analysis_time = 0
    /\ pyNow = AnalysisInterval
    /\ apc = [a \in Analyzers |-> "idle"]
    /\ aBatch = [a \in Analyzers |-> 0]
    /\ aChunks = [a \in Analyzers |-> <<>>]
    /\ aResults = [a \in Analyzers |-> <<>>]
    /\ aIdx = [a \in Analyzers |-> 0]
    /\ aNow = 0
    /\ InitClean

\* Spec starts with screenshots stored for day d1 only, and one AI card per day
Init ==
    /\ InitDb /\ InitAI /\ InitStore /\ InitCapture /\ InitPy
    /\ screenshots = {[id |-> 1, captured_at |-> 1, file_size |-> 1]}
    /\ files = {1}
    /\ nextId = 2

-----------------------------------------------------------------------------
(* dayflow_windows/database.py: insert_screenshot, enforce_storage_limit *)

RECURSIVE SumSizes(_)
\* SELECT COALESCE(SUM(file_size), 0) FROM screenshots
SumSizes(rows) ==
    IF rows = {} THEN 0
    ELSE LET r == CHOOSE x \in rows : TRUE IN r.file_size + SumSizes(rows \ {r})

\* a scan that may take the rows in any order
AnyOrder(rows) == rows

\* rows that ORDER BY captured_at ASC may put first
Oldest(rows) == {r \in rows : \A q \in rows : r.captured_at <= q.captured_at}

\* capture_once, lines 71-74: the media file is written, then insert_screenshot
\* is called (and waits for the lock)
InsertCall(t, ts, size) ==
    /\ spc[t] = "idle"
    /\ t \in CaptureThreads
    /\ nextId <= MaxSamples
    /\ files' = files \cup {PathOf(ts)}
    /\ sArg' = [sArg EXCEPT ![t] = [captured_at |-> ts, file_size |-> size]]
    /\ spc' = [spc EXCEPT ![t] = "insert_wait"]
    /\ UNCHANGED <<dbLock, ai_timeline_cards, ai_daily_summaries, conn, screenshots,
                   nextId, sRows, sCurrent, sRemoved, sRet, aiVars, capVars, pyVars>>

\* an insert_screenshot that does not take the lock
InsertUnlocked(t) ==
    /\ spc[t] = "insert_wait"
    /\ nextId' = nextId + 1
    /\ screenshots' = screenshots \cup
         {[id |-> nextId, captured_at |-> sArg[t].captured_at,
           file_size |-> sArg[t].file_size]}
    /\ sRet' = [sRet EXCEPT ![t] = <<nextId, 0>>]
    /\ sArg' = [sArg EXCEPT ![t] = 0]
    /\ spc' = [spc EXCEPT ![t] = "idle"]
    /\ UNCHANGED <<dbLock, ai_timeline_cards, ai_daily_summaries, conn, files, sRows,
                   sCurrent, sRemoved, aiVars, capVars, pyVars>>

\* an insert_screenshot on a table without AUTOINCREMENT: the new id is one
\* more than the largest id now in the table
InsertReusingRowid(t) ==
    /\ spc[t] = "insert_wait"
    /\ dbLock = "free"
    /\ LET ids == {r.id : r \in screenshots}
           id == IF ids = {} THEN 1 ELSE (CHOOSE i \in ids : \A j \in ids : j <= i) + 1
       IN  /\ screenshots' = screenshots \cup
                {[id |-> id, captured_at |-> sArg[t].captured_at,
                  file_size |-> sArg[t].file_size]}
           /\ sRet' = [sRet EXCEPT ![t] = <<id, 0>>]
    /\ nextId' = nextId + 1
    /\ spc' = [spc EXCEPT ![t] = "idle"]
    /\ sArg' = [sArg EXCEPT ![t] = 0]
    /\ UNCHANGED <<dbLock, ai_timeline_cards, ai_daily_summaries, conn, files, sRows,
                   sCurrent, sRemoved, aiVars, capVars, pyVars>>

\* insert_screenshot, lines 105-126, under the lock
InsertRun(t) ==
    /\ spc[t] = "insert_wait"
    /\ dbLock = "free"
    /\ screenshots' = screenshots \cup
         {[id |-> nextId, captured_at |-> sArg[t].captured_at,
           file_size |-> sArg[t].file_size]}
    /\ nextId' = nextId + 1
    /\ sRet' = [sRet EXCEPT ![t] = <<nextId, 0>>]
    /\ sArg' = [sArg EXCEPT ![t] = 0]
    /\ spc' = [spc EXCEPT ![t] = "idle"]
    /\ UNCHANGED <<dbLock, ai_timeline_cards, ai_daily_summaries, conn, files, sRows,
                   sCurrent, sRemoved, aiVars, capVars, pyVars>>

\* an enforce_storage_limit without lines 384-385: any max_bytes reaches the
\* with statement
EnforceUnguarded(t, max_bytes) ==
    /\ spc[t] = "idle"
    /\ t = "ui"
    /\ spc' = [spc EXCEPT ![t] = "enforce_wait"]
    /\ sArg' = [sArg EXCEPT ![t] = max_bytes]
    /\ UNCHANGED <<dbVars, sRows, sCurrent, sRemoved, sRet, aiVars, capVars, pyVars>>

\* enforce_storage_limit, lines 384-385: max_bytes <= 0 returns at once
EnforceDisabled(t, max_bytes) ==
    /\ spc[t] = "idle"
    /\ t = "ui"
    /\ max_bytes <= 0
    /\ sRet' = [sRet EXCEPT ![t] = <<0, 0>>]
    /\ UNCHANGED <<dbVars, spc, sArg, sRows, sCurrent, sRemoved, aiVars, capVars,
                   pyVars>>

\* enforce_storage_limit with max_bytes > 0 reaches the with statement
EnforceCall(t, max_bytes) ==
    /\ spc[t] = "idle"
    /\ t = "ui"
    /\ max_bytes > 0
    /\ sArg' = [sArg EXCEPT ![t] = max_bytes]
    /\ spc' = [spc EXCEPT ![t] = "enforce_wait"]
    /\ UNCHANGED <<dbVars, sRows, sCurrent, sRemoved, sRet, aiVars, capVars, pyVars>>

\* app._storage_limit_bytes: the setting, 0 when it is not positive (or not
\* a number); sizes are counted in the setting's unit
storage_limit_bytes(gb) == IF gb <= 0 THEN 0 ELSE gb

\* app._maybe_cleanup_storage, after a capture when auto cleanup is on:
\* returns without calling the Store when the limit is not positive
MaybeCleanupStorage(t, gb) ==
    /\ spc[t] = "idle"
    /\ t = "ui"
    /\ IF storage_limit_bytes(gb) <= 0
       THEN UNCHANGED vars
       ELSE EnforceCall(t, storage_limit_bytes(gb))

\* lines 390-402: under the lock, the total and, when over the limit, the rows
EnforceScan(t) ==
    /\ spc[t] = "enforce_wait"
    /\ dbLock = "free"
    /\ dbLock' = t
    /\ sCurrent' = [sCurrent EXCEPT ![t] = SumSizes(screenshots)]
    /\ sRemoved' = [sRemoved EXCEPT ![t] = <<0, 0>>]
    /\ IF SumSizes(screenshots) <= sArg[t]
       THEN /\ sRet' = [sRet EXCEPT ![t] = <<0, 0>>]
            /\ spc' = [spc EXCEPT ![t] = "enforce_exit"]
            /\ UNCHANGED <<conn, sRows>>
       ELSE /\ sRows' = [sRows EXCEPT ![t] = screenshots]
            /\ conn' = [conn EXCEPT ![t] = [open |-> TRUE, shots |-> screenshots]]
            /\ spc' = [spc EXCEPT ![t] = "enforce_loop"]
            /\ UNCHANGED sRet
    /\ UNCHANGED <<ai_timeline_cards, ai_daily_summaries, screenshots, files, nextId,
                   sArg, aiVars, capVars, pyVars>>

\* a loop that gives the sweep up when a row's file is missing: the call
\* raises and nothing is committed
AbortOnMissingFile(t) ==
    /\ spc[t] = "enforce_loop"
    /\ sRows[t] # {}
    /\ sCurrent[t] > sArg[t]
    /\ \E row \in Oldest(sRows[t]) :
         IF PathOf(row.captured_at) \in files
         THEN /\ files' = files \ {PathOf(row.captured_at)}
              /\ conn' = [conn EXCEPT ![t].shots = @ \ {row}]
              /\ sRows' = [sRows EXCEPT ![t] = @ \ {row}]
              /\ sCurrent' = [sCurrent EXCEPT ![t] = @ - row.file_size]
              /\ sRemoved' = [sRemoved EXCEPT ![t] = <<@[1] + 1, @[2] + row.file_size>>]
              /\ UNCHANGED <<spc, sRet>>
         ELSE /\ spc' = [spc EXCEPT ![t] = "enforce_exit"]
              /\ conn' = [conn EXCEPT ![t] = NoConn]
              /\ sRows' = [sRows EXCEPT ![t] = {}]
              /\ sRet' = [sRet EXCEPT ![t] = <<0 - 1, 0 - 1>>]
              /\ UNCHANGED <<files, sCurrent, sRemoved>>
    /\ UNCHANGED <<dbLock, ai_timeline_cards, ai_daily_summaries, screenshots, nextId,
                   sArg, aiVars, capVars, pyVars>>

\* lines 404-419: one row of the loop; unlink removes the file, or the file is
\* missing, or unlink raises OSError, and the row is deleted either way
EnforceRow(t) ==
    /\ spc[t] = "enforce_loop"
    /\ sRows[t] # {}
    /\ sCurrent[t] > sArg[t]
    /\ \E row \in Oldest(sRows[t]) :
         /\ \/ files' = files \ {PathOf(row.captured_at)}
            \/ PathOf(row.captured_at) \in files /\ files' = files
         /\ conn' = [conn EXCEPT ![t].shots = @ \ {row}]
         /\ sRows' = [sRows EXCEPT ![t] = @ \ {row}]
         /\ sCurrent' = [sCurrent EXCEPT ![t] = @ - row.file_size]
         /\ sRemoved' = [sRemoved EXCEPT ![t] = <<@[1] + 1, @[2] + row.file_size>>]
    /\ UNCHANGED <<dbLock, ai_timeline_cards, ai_daily_summaries, screenshots, nextId,
                   spc, sArg, sRet, aiVars, capVars, pyVars>>

\* a loop that may stop at any row, whatever the total is
EarlyCommit(t) ==
    /\ spc[t] = "enforce_loop"
    /\ screenshots' = conn[t].shots
    /\ conn' = [conn EXCEPT ![t] = NoConn]
    /\ sRows' = [sRows EXCEPT ![t] = {}]
    /\ sRet' = [sRet EXCEPT ![t] = sRemoved[t]]
    /\ spc' = [spc EXCEPT ![t] = "enforce_exit"]
    /\ UNCHANGED <<dbLock, ai_timeline_cards, ai_daily_summaries, files, nextId, sArg,
                   sCurrent, sRemoved, aiVars, capVars, pyVars>>

\* lines 405-406 (break) or the end of the rows, then line 421: commit
EnforceCommit(t) ==
    /\ spc[t] = "enforce_loop"
    /\ sRows[t] = {} \/ sCurrent[t] <= sArg[t]
    /\ screenshots' = conn[t].shots
    /\ conn' = [conn EXCEPT ![t] = NoConn]
    /\ sRows' = [sRows EXCEPT ![t] = {}]
    /\ sRet' = [sRet EXCEPT ![t] = sRemoved[t]]
    /\ spc' = [spc EXCEPT ![t] = "enforce_exit"]
    /\ UNCHANGED <<dbLock, ai_timeline_cards, ai_daily_summaries, files, nextId, sArg,
                   sCurrent, sRemoved, aiVars, capVars, pyVars>>

\* the exit of the with block: the lock is released and the call returns sRet
EnforceExit(t) ==
    /\ spc[t] = "enforce_exit"
    /\ dbLock' = "free"
    /\ spc' = [spc EXCEPT ![t] = "idle"]
    /\ sArg' = [sArg EXCEPT ![t] = 0]
    /\ sCurrent' = [sCurrent EXCEPT ![t] = 0]
    /\ sRemoved' = [sRemoved EXCEPT ![t] = <<0, 0>>]
    /\ UNCHANGED <<ai_timeline_cards, ai_daily_summaries, conn, screenshots, files,
                   nextId, sRows, sRet, aiVars, capVars, pyVars>>

\* what sRet holds after a call that raised
Raised == <<0 - 1, 0 - 1>>

\* capture_once step by step; line 71: captured_at = datetime.now().astimezone()
CaptureBegin(t, ts) ==
    /\ spc[t] = "idle"
    /\ t \in CaptureThreads
    /\ nextId <= MaxSamples
    /\ sArg' = [sArg EXCEPT ![t] = [captured_at |-> ts, file_size |-> 0]]
    /\ sRet' = [sRet EXCEPT ![t] = <<0, 0>>]
    /\ spc' = [spc EXCEPT ![t] = "window"]
    /\ UNCHANGED <<dbVars, sRows, sCurrent, sRemoved, aiVars, capVars, pyVars>>

\* line 72: current_active_window returns (the window's title and process,
\* or "Unknown Window" / "unknown" when Windows gives none)
WindowReturns(t) ==
    /\ spc[t] = "window"
    /\ spc' = [spc EXCEPT ![t] = "media"]
    /\ UNCHANGED <<dbVars, sArg, sRows, sCurrent, sRemoved, sRet, aiVars, capVars,
                   pyVars>>

\* line 72: current_active_window raises; capture_once has no handler
WindowRaises(t) ==
    /\ spc[t] = "window"
    /\ spc' = [spc EXCEPT ![t] = "idle"]
    /\ sArg' = [sArg EXCEPT ![t] = 0]
    /\ sRet' = [sRet EXCEPT ![t] = Raised]
    /\ UNCHANGED <<dbVars, sRows, sCurrent, sRemoved, aiVars, capVars, pyVars>>

\* lines 73-74: the screenshot is grabbed and saved, and its size is read
MediaWritten(t, size) ==
    /\ spc[t] = "media"
    /\ files' = files \cup {PathOf(sArg[t].captured_at)}
    /\ sArg' = [sArg EXCEPT ![t].file_size = size]
    /\ spc' = [spc EXCEPT ![t] = "insert_wait"]
    /\ UNCHANGED <<dbLock, ai_timeline_cards, ai_daily_summaries, conn, screenshots,
                   nextId, sRows, sCurrent, sRemoved, sRet, aiVars, capVars, pyVars>>

\* lines 73-74: ImageGrab.grab, image.save or path.stat raises, before the
\* file is created or with a file left behind
MediaRaises(t) ==
    /\ spc[t] = "media"
    /\ \/ files' = files
       \/ files' = files \cup {PathOf(sArg[t].captured_at)}
    /\ spc' = [spc EXCEPT ![t] = "idle"]
    /\ sArg' = [sArg EXCEPT ![t] = 0]
    /\ sRet' = [sRet EXCEPT ![t] = Raised]
    /\ UNCHANGED <<dbLock, ai_timeline_cards, ai_daily_summaries, conn, screenshots,
                   nextId, sRows, sCurrent, sRemoved, aiVars, capVars, pyVars>>

\* an insert_screenshot that raises after its commit
CommitThenRaise(t) ==
    /\ spc[t] = "insert_wait"
    /\ dbLock = "free"
    /\ screenshots' = screenshots \cup
         {[id |-> nextId, captured_at |-> sArg[t].captured_at,
           file_size |-> sArg[t].file_size]}
    /\ nextId' = nextId + 1
    /\ spc' = [spc EXCEPT ![t] = "idle"]
    /\ sArg' = [sArg EXCEPT ![t] = 0]
    /\ sRet' = [sRet EXCEPT ![t] = Raised]
    /\ UNCHANGED <<dbLock, ai_timeline_cards, ai_daily_summaries, conn, files, sRows,
                   sCurrent, sRemoved, aiVars, capVars, pyVars>>

\* lines 76-82: insert_screenshot raises (connect, INSERT or commit fails);
\* the connection is closed without a commit
InsertRaises(t) ==
    /\ spc[t] = "insert_wait"
    /\ dbLock = "free"
    /\ spc' = [spc EXCEPT ![t] = "idle"]
    /\ sArg' = [sArg EXCEPT ![t] = 0]
    /\ sRet' = [sRet EXCEPT ![t] = Raised]
    /\ UNCHANGED <<dbVars, sRows, sCurrent, sRemoved, aiVars, capVars, pyVars>>

CaptureOnceNext ==
    \/ \E t \in StoreThreads, ts \in Stamps : CaptureBegin(t, ts)
    \/ \E t \in StoreThreads : WindowReturns(t)
    \/ \E t \in StoreThreads : WindowRaises(t)
    \/ \E t \in StoreThreads, size \in Sizes : MediaWritten(t, size)
    \/ \E t \in StoreThreads : MediaRaises(t)
    \/ \E t \in StoreThreads : InsertRun(t)
    \/ \E t \in StoreThreads : InsertRaises(t)

StoreInit ==
    /\ InitDb /\ InitAI /\ InitStore /\ InitCapture /\ InitPy
    /\ screenshots = {}
    /\ files = {}
    /\ nextId = 1

StoreNext ==
    \/ \E t \in StoreThreads, ts \in Stamps, size \in Sizes : InsertCall(t, ts, size)
    \/ \E t \in StoreThreads : InsertRun(t)
    \/ \E t \in StoreThreads, m \in Limits : EnforceDisabled(t, m)
    \/ \E t \in StoreThreads, m \in Limits : EnforceCall(t, m)
    \/ \E t \in StoreThreads, gb \in Limits : MaybeCleanupStorage(t, gb)
    \/ \E t \in StoreThreads : EnforceScan(t)
    \/ \E t \in StoreThreads : EnforceRow(t)
    \/ \E t \in StoreThreads : EnforceCommit(t)
    \/ \E t \in StoreThreads : EnforceExit(t)

StoreSpec == StoreInit /\ [][StoreNext]_vars

\* capture_once calls of the loop thread and the manual-capture thread
CaptureOnceSpec == StoreInit /\ [][CaptureOnceNext]_vars

-----------------------------------------------------------------------------
(* Claims about the screenshot store, checked under StoreSpec *)

\* C2: when enforce_storage_limit with a positive max_bytes has committed and
\* is about to leave the lock, the sum of file_size over the rows that
\* remain is at most max_bytes.
C2_TotalWithinLimit ==
    \A t \in StoreThreads :
        spc[t] = "enforce_exit" => SumSizes(screenshots) <= sArg[t]

\* a cleanup with limit 1 that removed two rows (2 bytes) to get there
C2_Witness ==
    /\ spc["ui"] = "enforce_exit"
    /\ sArg["ui"] = 1
    /\ sRet["ui"] = <<2, 2>>
    /\ screenshots = {}

\* C12: when enforce_storage_limit commits its deletions, the deleted rows are
\* the shortest prefix of the stored rows in ORDER BY captured_at ASC order
\* that brings the total to at most max_bytes: every deleted row comes no
\* later in that order than every retained row, the retained total is within
\* max_bytes, and it was still over max_bytes before the last deletion.
C12_DeletesShortestOldestPrefix ==
    [][\A t \in StoreThreads :
         (spc[t] = "enforce_loop" /\ spc'[t] = "enforce_exit")
            => LET deleted == screenshots \ screenshots'
                   kept == screenshots'
               IN  /\ kept \subseteq screenshots
                   /\ deleted # {}
                   /\ \A d \in deleted, k \in kept : d.captured_at <= k.captured_at
                   /\ SumSizes(kept) <= sArg[t]
                   /\ \E d \in deleted :
                        /\ \A x \in deleted : x.captured_at <= d.captured_at
                        /\ SumSizes(kept) + d.file_size > sArg[t]]_vars

\* two rows of 2 bytes with different capture times and a limit of 3: the scan
\* deleted the older row and stops with the newer one left
C12_Witness ==
    /\ spc["ui"] = "enforce_loop"
    /\ sArg["ui"] = 3
    /\ sRemoved["ui"] = <<1, 2>>
    /\ sCurrent["ui"] = 2
    /\ {r.captured_at : r \in screenshots} = {1, 2}
    /\ {r.captured_at : r \in conn["ui"].shots} = {2}

\* C13: enforce_storage_limit(max_bytes) with max_bytes <= 0 returns (0, 0)
\* at once, and one that finds the total at most max_bytes returns (0, 0) from
\* the scan; neither deletes a row or a file. _maybe_cleanup_storage with a
\* limit setting of 0 or less changes nothing at all.
C13_NoDeletionWhenOffOrWithinBudget ==
    [][\A t \in StoreThreads :
         LET nothing == screenshots' = screenshots /\ files' = files
         IN  /\ \A m \in Limits :
                  (m <= 0 /\ EnforceDisabled(t, m))
                     => nothing /\ spc'[t] = "idle" /\ sRet'[t] = <<0, 0>>
             /\ (/\ spc[t] = "enforce_wait"
                 /\ spc'[t] # "enforce_wait"
                 /\ SumSizes(screenshots) <= sArg[t])
                     => nothing /\ spc'[t] = "enforce_exit" /\ sRet'[t] = <<0, 0>>
             /\ (spc[t] = "enforce_exit" /\ spc'[t] = "idle")
                     => nothing /\ sRet'[t] = sRet[t]
             /\ \A gb \in Limits :
                  (gb <= 0 /\ MaybeCleanupStorage(t, gb)) => UNCHANGED vars]_vars

\* a call with limit 3 found rows of 3 bytes in all and is returning (0, 0)
C13_Witness ==
    /\ spc["ui"] = "enforce_exit"
    /\ sArg["ui"] = 3
    /\ SumSizes(screenshots) = 3
    /\ sRemoved["ui"] = <<0, 0>>
    /\ sRet["ui"] = <<0, 0>>

\* C14: enforce_storage_limit and insert_screenshot are serialized by the
\* lock. The rows an enforce call scans are the rows stored at that moment
\* and its total is their sum; until the call leaves the lock no row is
\* inserted and the stored rows only shrink, by the call's own commit; and
\* all through its loop the running total is the sum of the scanned rows
\* not yet deleted.
C14_EnforceAndInsertSerialized ==
    [][\A t \in StoreThreads :
         /\ (spc[t] = "enforce_wait" /\ spc'[t] = "enforce_loop")
                => sRows'[t] = screenshots /\ sCurrent'[t] = SumSizes(screenshots)
         /\ spc[t] \in {"enforce_loop", "enforce_exit"}
                => nextId' = nextId /\ screenshots' \subseteq screenshots
         /\ spc'[t] = "enforce_loop"
                => /\ sRows'[t] \subseteq conn'[t].shots
                   /\ conn'[t].shots \subseteq screenshots'
                   /\ sCurrent'[t] = SumSizes(conn'[t].shots)]_vars

\* an insert_screenshot call is waiting for the lock while an enforce call
\* that has deleted a row is still in its loop
C14_Witness ==
    /\ spc["ui"] = "enforce_loop"
    /\ sRemoved["ui"][1] = 1
    /\ \E t \in CaptureThreads : spc[t] = "insert_wait"

\* C18: a row is added to screenshots only by a capture_once call that has
\* queried the window and written its media file, and the row is that
\* call's; a capture_once call in which the window lookup, the media
\* acquisition or insert_screenshot raises ends there, raising, with no row
\* added and no further attempt.
C18_RowOnlyAfterWindowAndMedia ==
    [][/\ screenshots' # screenshots
          => \E t \in CaptureThreads :
                /\ spc[t] = "insert_wait"
                /\ spc'[t] = "idle"
                /\ PathOf(sArg[t].captured_at) \in files
                /\ sRet'[t] = <<nextId, 0>>
                /\ screenshots' = screenshots \cup
                     {[id |-> nextId, captured_at |-> sArg[t].captured_at,
                       file_size |-> sArg[t].file_size]}
       /\ \A t \in CaptureThreads :
            (spc[t] # "idle" /\ sRet'[t] = Raised)
               => /\ spc'[t] = "idle"
                  /\ screenshots' = screenshots
                  /\ nextId' = nextId]_vars

\* a capture_once call has raised with its media file written and no row
\* stored
C18_Witness ==
    /\ spc["cap"] = "idle"
    /\ sRet["cap"] = Raised
    /\ files = {1}
    /\ screenshots = {}
    /\ spc["man"] = "idle"

\* C26: every insert_screenshot returns the id of the row it adds, which is
\* larger than every id given out before (nextId - 1 is the largest of them),
\* whether or not those rows are still stored; the ids in the table are
\* those given out, and nothing else adds a row.
C26_IdsIncreaseAndAreNotReused ==
    [][/\ \A r \in screenshots' : r.id < nextId'
       /\ nextId' >= nextId
       /\ \A r \in screenshots' \ screenshots :
            /\ \A q \in screenshots : q.id < r.id
            /\ r.id >= nextId
            /\ nextId' > r.id
            /\ \E t \in StoreThreads :
                 spc[t] = "insert_wait" /\ spc'[t] = "idle" /\ sRet'[t] = <<r.id, 0>>]_vars

\* the first row was deleted by a sweep that emptied the table, and the
\* insert after it was given id 2
C26_Witness ==
    /\ nextId = 3
    /\ \E r \in screenshots : r.id = 2
    /\ \A r \in screenshots : r.id # 1
    /\ \E t \in CaptureThreads : spc[t] = "idle" /\ sRet[t] = <<2, 0>>

\* C27: no two rows of screenshots name the same media file.
C27_DistinctRowsDistinctFiles ==
    \A r, q \in screenshots : r.id # q.id => PathOf(r.captured_at) # PathOf(q.captured_at)

\* C30: while a sweep is over budget and has rows left, its next step deletes
\* the oldest row and counts it in (removed_count, removed_bytes), whether
\* the row's file was removed, was missing or could not be removed, and the
\* sweep goes on; it ends, with a commit, only when the total is within
\* max_bytes or no row is left, and returns the counts.
C30_SweepSurvivesFileErrors ==
    [][\A t \in StoreThreads :
         (spc[t] = "enforce_loop" /\ (spc'[t] # spc[t] \/ sRows'[t] # sRows[t]))
            => IF sRows[t] # {} /\ sCurrent[t] > sArg[t]
               THEN /\ spc'[t] = "enforce_loop"
                    /\ \E row \in Oldest(sRows[t]) :
                         /\ sRows'[t] = sRows[t] \ {row}
                         /\ conn'[t].shots = conn[t].shots \ {row}
                         /\ sCurrent'[t] = sCurrent[t] - row.file_size
                         /\ sRemoved'[t] = <<sRemoved[t][1] + 1,
                                             sRemoved[t][2] + row.file_size>>
                         /\ files' \in {files, files \ {PathOf(row.captured_at)}}
               ELSE /\ spc'[t] = "enforce_exit"
                    /\ screenshots' = conn[t].shots
                    /\ sRet'[t] = sRemoved[t]]_vars

\* a sweep has deleted and counted two rows of 2 bytes although neither file
\* could be removed
C30_Witness ==
    /\ \A t \in StoreThreads : spc[t] = "idle"
    /\ screenshots = {}
    /\ Cardinality(files) = 2
    /\ sRet["ui"] = <<2, 4>>

\* a sweep that has deleted one row is over budget and has reached a row
\* whose file is missing
C30_MissingFileReached ==
    \E t \in StoreThreads :
        /\ spc[t] = "enforce_loop"
        /\ sRemoved[t][1] = 1
        /\ sCurrent[t] > sArg[t]
        /\ \E row \in Oldest(sRows[t]) : PathOf(row.captured_at) \notin files

-----------------------------------------------------------------------------
(* Claims about the AI timeline (checked under Spec) *)

\* C1: a list_ai_timeline_for_day call that runs concurrently with
\* replace_ai_timeline_for_day returns one of the full card lists the day was
\* given (the stored one or the new_cards of a replace), never a mixture, a
\* part, or the empty list between the DELETE and the INSERTs.
C1_ListSeesWholeSet ==
    uipc = "idle" => uiRows \in history[uiDay]

\* a list call returned the two new cards that replaced the day's single card
C1_Witness ==
    /\ uipc = "idle"
    /\ uiDay = "d1"
    /\ uiRows = <<CardMail, CardWork>>
    /\ ai_timeline_cards["d1"] = <<CardWork, CardMail>>

\* C7: when generate raises, the invocation changes neither the day's cards
\* nor its summary, queues one ai_error event and ends.
C7_FailedGenerateWritesNothing ==
    [][\A w \in Workers :
         (wGen[w] # "failed" /\ wGen'[w] = "failed")
         => /\ ai_timeline_cards' = ai_timeline_cards
            /\ ai_daily_summaries' = ai_daily_summaries
            /\ events' = Append(events, "ai_error")
            /\ wpc'[w] = "idle"]_vars

\* a generate call failed: its ai_error is queued and the day still holds the
\* card and the summary it had
C7_Witness ==
    /\ \E w \in Workers : wGen[w] = "failed" /\ wpc[w] = "idle"
    /\ events = <<"ai_error">>
    /\ ai_timeline_cards["d1"] = <<CardMail>>
    /\ ai_daily_summaries["d1"] = <<"o", "k">>

\* C8 (as claimed): an invocation whose response normalizes to zero cards
\* leaves the day's stored cards alone and reports nothing but ai_error.
C8_ZeroCardsEndsFailed ==
    [][\A w \in Workers :
         (wGen[w] = "ok" /\ wCards[w] = <<>> /\ wpc'[w] # wpc[w])
         => /\ ai_timeline_cards'[wDay[w]] = ai_timeline_cards[wDay[w]]
            /\ (events' # events => events' = Append(events, "ai_error"))]_vars

WorkerStep(w) ==
    \/ WorkerGenerateFail(w)
    \/ WorkerGenerateOk(w)
    \/ ReplaceLock(w)
    \/ ReplaceDelete(w)
    \/ ReplaceInsert(w)
    \/ ReplaceSummary(w)
    \/ ReplaceCommit(w)
    \/ ReplaceFail(w)
    \/ WorkerPutDone(w)

Next ==
    \/ \E d \in Days : GenerateNoScreenshots(d)
    \/ \E w \in Workers, d \in Days : GenerateSpawn(w, d)
    \/ \E w \in Workers : WorkerStep(w)
    \/ \E d \in Days : UiList(d)
    \/ ListSelect
    \/ \E d \in Days : DrainEvent(d)

Spec == Init /\ [][Next]_vars

-----------------------------------------------------------------------------
(* dayflow_windows/capture.py: ScreenCaptureService.  start and stop are called
   from the UI thread only (app.py 1659-1678, 2194-2196); every loop thread
   runs _run_capture_loop.  Time is counted in units of 50 ms and a deadline is
   kept as its distance from the monotonic clock. *)

\* 0.05 s, line 112
Epsilon == 1
\* 1.0 s, line 40
MinInterval == 20

\* interval_seconds arguments of start (0.5 s and 1.0 s)
StartIntervals == {10, 20}
\* timeout_seconds arguments of stop
Timeouts == {0, 10}
\* amounts of time that pass between two steps
Elapse == {10}

Max(a, b) == IF a >= b THEN a ELSE b

\* the largest interval a loop can run with
MaxInterval == Max(MinInterval, CHOOSE i \in StartIntervals : \A j \in StartIntervals : j <= i)

\* threading.Thread.is_alive
Alive(l) == lpc[l] \notin {"unborn", "exited"}

\* is_running, lines 30-32
IsRunning == thread # "none" /\ Alive(thread)

\* start, lines 40-43: a loop is running, nothing is changed, False
StartRefused(iv) ==
    /\ cpc = "idle"
    /\ IsRunning
    /\ started' = "false"
    /\ cpc' = "start_ret"
    /\ UNCHANGED <<thread, stop_event, interval_seconds, on_sample, on_error, lpc,
                   next_due, cap_time, lastCall, joining, join_left,
                   stopped, dbVars, aiVars, stVars, pyVars>>

\* a start that takes the interval as given, without line 40
StartUnclamped(iv, l) ==
    /\ cpc = "idle"
    /\ ~IsRunning
    /\ ~Alive(l)
    /\ interval_seconds' = iv
    /\ on_sample' = "put"
    /\ on_error' = "put"
    /\ stop_event' = FALSE
    /\ thread' = l
    /\ lpc' = [lpc EXCEPT ![l] = "begin"]
    /\ stopped' = stopped \ {l}
    /\ started' = "true"
    /\ cpc' = "start_ret"
    /\ UNCHANGED <<next_due, cap_time, lastCall, joining, join_left,
                   dbVars, aiVars, stVars, pyVars>>

\* start, lines 40-55: the fields are set, the stop signal is cleared and a new
\* thread l is started
StartLoop(iv, l) ==
    /\ cpc = "idle"
    /\ ~IsRunning
    /\ ~Alive(l)
    /\ interval_seconds' = Max(MinInterval, iv)
    /\ on_sample' = "put"
    /\ on_error' = "put"
    /\ stop_event' = FALSE
    /\ thread' = l
    /\ lpc' = [lpc EXCEPT ![l] = "begin"]
    /\ stopped' = stopped \ {l}
    /\ started' = "true"
    /\ cpc' = "start_ret"
    /\ UNCHANGED <<next_due, cap_time, lastCall, joining, join_left,
                   dbVars, aiVars, stVars, pyVars>>

\* start has returned to _start_capture
StartReturn ==
    /\ cpc = "start_ret"
    /\ cpc' = "idle"
    /\ started' = "none"
    /\ UNCHANGED <<thread, stop_event, interval_seconds, on_sample, on_error, lpc,
                   next_due, cap_time, lastCall, joining, join_left,
                   stopped, dbVars, aiVars, stVars, pyVars>>

\* stop, lines 58-61: no thread, return
StopNoThread(timeout) ==
    /\ cpc = "idle"
    /\ thread = "none"
    /\ cpc' = "stop_ret"
    /\ UNCHANGED <<thread, stop_event, interval_seconds, on_sample, on_error, lpc,
                   next_due, cap_time, lastCall, joining, join_left,
                   started, stopped, dbVars, aiVars, stVars, pyVars>>

\* stop, lines 58-64: the stop signal is set and join(timeout) begins
StopSignal(timeout) ==
    /\ cpc = "idle"
    /\ thread # "none"
    /\ joining' = thread
    /\ stop_event' = TRUE
    /\ join_left' = timeout
    /\ cpc' = "join"
    /\ UNCHANGED <<thread, interval_seconds, on_sample, on_error, lpc, next_due,
                   cap_time, lastCall, started, stopped, dbVars, aiVars,
                   stVars, pyVars>>

\* lines 66-68, after join returned
StopForget ==
    /\ thread' = IF thread = joining THEN "none" ELSE thread
    /\ join_left' = 0
    /\ cpc' = "stop_ret"
    /\ UNCHANGED <<stop_event, interval_seconds, on_sample, on_error, lpc, next_due,
                   cap_time, lastCall, joining, started, stopped, dbVars,
                   aiVars, stVars, pyVars>>

\* line 64: join returns because the loop thread has ended
StopJoined ==
    /\ cpc = "join"
    /\ ~Alive(joining)
    /\ StopForget

\* line 64: join returns because the timeout has elapsed
StopTimedOut ==
    /\ cpc = "join"
    /\ Alive(joining)
    /\ join_left = 0
    /\ StopForget

\* stop has returned to its caller
StopReturn ==
    /\ cpc = "stop_ret"
    /\ cpc' = "idle"
    /\ stopped' = IF joining = "none" THEN stopped ELSE stopped \cup {joining}
    /\ joining' = "none"
    /\ UNCHANGED <<thread, stop_event, interval_seconds, on_sample, on_error, lpc,
                   next_due, cap_time, lastCall, join_left, started,
                   dbVars, aiVars, stVars, pyVars>>

callerVars == <<thread, stop_event, interval_seconds, on_sample, on_error, cpc,
                joining, join_left, started, stopped>>

\* line 94: next_due = time.monotonic()
LoopBegin(l) ==
    /\ lpc[l] = "begin"
    /\ next_due' = [next_due EXCEPT ![l] = 0]
    /\ lpc' = [lpc EXCEPT ![l] = "check"]
    /\ UNCHANGED <<callerVars, cap_time, lastCall, dbVars, aiVars, stVars, pyVars>>

\* lines 96-99: the while test, then either wait for the deadline or capture
LoopCheck(l) ==
    /\ lpc[l] = "check"
    /\ lpc' = [lpc EXCEPT ![l] = IF stop_event THEN "exited"
                                 ELSE IF 0 < next_due[l] THEN "wait"
                                 ELSE "capture"]
    /\ next_due' = [next_due EXCEPT ![l] = IF stop_event THEN 0 ELSE @]
    /\ UNCHANGED <<callerVars, cap_time, lastCall, dbVars, aiVars, stVars, pyVars>>

\* lines 99-100: stop_event.wait returns True (break) or times out
LoopWake(l) ==
    /\ lpc[l] = "wait"
    /\ stop_event \/ next_due[l] <= 0
    /\ lpc' = [lpc EXCEPT ![l] = IF stop_event THEN "exited" ELSE "capture"]
    /\ next_due' = [next_due EXCEPT ![l] = IF stop_event THEN 0 ELSE @]
    /\ UNCHANGED <<callerVars, cap_time, lastCall, dbVars, aiVars, stVars, pyVars>>

\* line 103: capture_once returns a result
CaptureOk(l) ==
    /\ lpc[l] = "capture"
    /\ lpc' = [lpc EXCEPT ![l] = "on_sample"]
    /\ UNCHANGED <<callerVars, next_due, cap_time, lastCall, dbVars, aiVars, stVars,
                   pyVars>>

\* lines 103, 107: capture_once raises and the except clause is entered
CaptureRaise(l) ==
    /\ lpc[l] = "capture"
    /\ lpc' = [lpc EXCEPT ![l] = "on_error"]
    /\ UNCHANGED <<callerVars, next_due, cap_time, lastCall, dbVars, aiVars, stVars,
                   pyVars>>

\* a deadline counted from the end of the pass
DriftingDue(l) == interval_seconds

\* a deadline that only ever advances by the interval, however late the pass
CatchUpDue(l) == next_due[l] + interval_seconds

\* line 112: max(next_due + interval, time.monotonic() + 0.05)
AdvancedDue(l) == Max(next_due[l] + interval_seconds, Epsilon)

\* line 112, and back to the while test
LoopAdvance(l) ==
    /\ next_due' = [next_due EXCEPT ![l] = AdvancedDue(l)]
    /\ cap_time' = [cap_time EXCEPT ![l] = 0]
    /\ lpc' = [lpc EXCEPT ![l] = "check"]

\* lines 104-106 and 112: the on_sample listener (app.py 2076-2077 queues
\* "sample"), then the deadline update
CallOnSample(l) ==
    /\ lpc[l] = "on_sample"
    /\ lastCall' = IF on_sample # "none" THEN "sample" ELSE lastCall
    /\ LoopAdvance(l)
    /\ UNCHANGED <<callerVars, dbVars, aiVars, stVars, pyVars>>

\* an except clause that reports the failure and lets the thread end
ReportAndExit(l) ==
    /\ lpc[l] = "on_error"
    /\ lastCall' = IF on_error # "none" THEN "error" ELSE lastCall
    /\ lpc' = [lpc EXCEPT ![l] = "exited"]
    /\ next_due' = [next_due EXCEPT ![l] = 0]
    /\ cap_time' = [cap_time EXCEPT ![l] = 0]
    /\ UNCHANGED <<callerVars, dbVars, aiVars, stVars, pyVars>>

\* lines 108-110 and 112: the on_error listener (app.py 2079-2080 queues
\* "error"), then the deadline update
CallOnError(l) ==
    /\ lpc[l] = "on_error"
    /\ lastCall' = IF on_error # "none" THEN "error" ELSE lastCall
    /\ LoopAdvance(l)
    /\ UNCHANGED <<callerVars, dbVars, aiVars, stVars, pyVars>>

\* time passes: every live deadline comes d nearer (a deadline missed by a
\* whole interval or more is kept at that distance), a capture in progress
\* gets d longer (up to a whole interval), join's timeout runs down
Tick(d) ==
    /\ next_due' = [l \in Loops |->
                      IF lpc[l] \in {"unborn", "begin", "exited"} THEN next_due[l]
                      ELSE Max(next_due[l] - d, 0 - interval_seconds)]
    /\ cap_time' = [l \in Loops |->
                      IF lpc[l] = "capture"
                      THEN 0 - Max(0 - (cap_time[l] + d), 0 - interval_seconds)
                      ELSE cap_time[l]]
    /\ join_left' = Max(join_left - d, 0)
    /\ UNCHANGED <<thread, stop_event, interval_seconds, on_sample, on_error, lpc,
                   lastCall, cpc, joining, started, stopped, dbVars, aiVars, stVars,
                   pyVars>>

LoopStep(l) ==
    \/ LoopBegin(l)
    \/ LoopCheck(l)
    \/ LoopWake(l)
    \/ CaptureOk(l)
    \/ CaptureRaise(l)
    \/ CallOnSample(l)
    \/ CallOnError(l)

CaptureInit ==
    /\ InitDb /\ InitAI /\ InitStore /\ InitCapture /\ InitPy
    /\ screenshots = {}
    /\ files = {}
    /\ nextId = 1

CaptureNext ==
    \/ \E iv \in StartIntervals : StartRefused(iv)
    \/ \E iv \in StartIntervals, l \in Loops : StartLoop(iv, l)
    \/ StartReturn
    \/ \E t \in Timeouts : StopNoThread(t)
    \/ \E t \in Timeouts : StopSignal(t)
    \/ StopJoined
    \/ StopTimedOut
    \/ StopReturn
    \/ \E l \in Loops : LoopStep(l)
    \/ \E d \in Elapse : Tick(d)

CaptureSpec == CaptureInit /\ [][CaptureNext]_vars

\* lines 104-107: the on_sample listener raises; the call is inside the try,
\* so the except clause is entered with the listener's exception
OnSampleRaises(l) ==
    /\ lpc[l] = "on_sample"
    /\ on_sample # "none"
    /\ lastCall' = "sample"
    /\ lpc' = [lpc EXCEPT ![l] = "on_error"]
    /\ UNCHANGED <<callerVars, next_due, cap_time, dbVars, aiVars, stVars, pyVars>>

\* lines 108-110: the on_error listener raises; nothing catches the exception
\* and the thread ends
OnErrorRaises(l) ==
    /\ lpc[l] = "on_error"
    /\ on_error # "none"
    /\ lastCall' = "error"
    /\ lpc' = [lpc EXCEPT ![l] = "exited"]
    /\ next_due' = [next_due EXCEPT ![l] = 0]
    /\ cap_time' = [cap_time EXCEPT ![l] = 0]
    /\ UNCHANGED <<callerVars, dbVars, aiVars, stVars, pyVars>>

\* the service with listeners that may raise
ListenerNext ==
    \/ CaptureNext
    \/ \E l \in Loops : OnSampleRaises(l)
    \/ \E l \in Loops : OnErrorRaises(l)

ListenerSpec == CaptureInit /\ [][ListenerNext]_vars

\* every loop thread keeps running, capture_once returns or raises, and time
\* passes; the UI thread's calls are not forced
FairCaptureSpec ==
    /\ CaptureSpec
    /\ \A l \in Loops : WF_vars(LoopStep(l))
    /\ \A d \in Elapse : WF_vars(Tick(d))

-----------------------------------------------------------------------------
(* dayflow_windows/app.py: the capture-interval entry and _start_capture,
   together with direct calls of ScreenCaptureService.start.  IntervalSpec
   follows one capture loop that is started and not stopped while the entry
   changes. *)

\* 2.0 s and 300.0 s, the bounds _current_interval applies
AppMinInterval == 40
AppMaxInterval == 6000

Min(a, b) == IF a <= b THEN a ELSE b

\* _current_interval: max(2.0, min(300.0, value))
current_interval(value) == Max(AppMinInterval, Min(AppMaxInterval, value))

\* numbers typed into the interval entry (0.5 s, 450 s)
IntervalSettings == {10, 9000}
\* interval_seconds arguments of direct start calls (0.5 s, 450 s)
WideIntervals == {10, 9000}
\* amounts of time that pass between two steps when intervals are minutes long
LongElapse == {3000}

\* 10.0 s, the entry's value when no interval was ever saved
DefaultInterval == 200

\* the intervals _start_capture can pass to start
SettingIntervals == {current_interval(v) : v \in IntervalSettings \cup {DefaultInterval}}

\* the user edits the interval entry
ChangeInterval(v) ==
    /\ interval_var # v
    /\ interval_var' = v
    /\ UNCHANGED <<dbVars, wpc, wDay, wCards, wSummary, wIdx, wGen, events, uipc, uiDay,
                   uiRows, invocations, history, fnVars, tlpc, tl_ordered, tl_fallback,
                   tl_index, tl_grouped, tl_cards, stVars, capVars, pyVars>>

\* _start_capture, lines 1659-1672: _current_interval clamps the entry and
\* writes it back, then start is called with the clamped value
StartCapture(l) ==
    /\ interval_var' = current_interval(interval_var)
    /\ UNCHANGED <<wpc, wDay, wCards, wSummary, wIdx, wGen, events, uipc, uiDay,
                   uiRows, invocations, history, fnVars, tlpc, tl_ordered, tl_fallback,
                   tl_index, tl_grouped, tl_cards>>
    /\ \/ /\ cpc = "idle"
          /\ IsRunning
          /\ started' = "false"
          /\ cpc' = "start_ret"
          /\ UNCHANGED <<thread, stop_event, interval_seconds, on_sample, on_error,
                         lpc, next_due, cap_time, lastCall, joining, join_left,
                         stopped, dbVars, stVars, pyVars>>
       \/ /\ cpc = "idle"
          /\ ~IsRunning
          /\ ~Alive(l)
          /\ interval_seconds' = Max(MinInterval, current_interval(interval_var))
          /\ on_sample' = "put"
          /\ on_error' = "put"
          /\ stop_event' = FALSE
          /\ thread' = l
          /\ lpc' = [lpc EXCEPT ![l] = "begin"]
          /\ stopped' = stopped \ {l}
          /\ started' = "true"
          /\ cpc' = "start_ret"
          /\ UNCHANGED <<next_due, cap_time, lastCall, joining, join_left,
                         dbVars, stVars, pyVars>>

IntervalNext ==
    \/ \E v \in IntervalSettings : ChangeInterval(v)
    \/ \E l \in Loops : StartCapture(l)
    \/ \E iv \in WideIntervals : StartRefused(iv)
    \/ \E iv \in WideIntervals, l \in Loops : StartLoop(iv, l)
    \/ StartReturn
    \/ \E l \in Loops : LoopStep(l)
    \/ \E d \in LongElapse : Tick(d)

IntervalSpec == CaptureInit /\ [][IntervalNext]_vars

-----------------------------------------------------------------------------
(* Claims about ScreenCaptureService *)

\* a loop thread calls a listener
ListenerCall(l) == lpc[l] \in {"on_sample", "on_error"} /\ lpc'[l] # lpc[l]

\* C3: once a stop call for a loop thread has returned, that loop makes no
\* on_sample or on_error call, whatever the timeout was and wherever the loop
\* was when stop was called.
C3_NoCallAfterStopReturned ==
    [][\A l \in Loops : ListenerCall(l) => l \notin stopped]_vars

\* C4: a start call made while a loop thread is alive returns False and leaves
\* interval, listeners, thread and stop signal as they were; a start call made
\* with no loop thread alive returns True with exactly one new thread, which
\* has not captured yet.
C4_StartContract ==
    [][(cpc = "idle" /\ cpc' = "start_ret") =>
         IF \E l \in Loops : Alive(l)
         THEN /\ started' = "false"
              /\ UNCHANGED <<interval_seconds, on_sample, on_error, thread,
                             stop_event, lpc>>
         ELSE /\ started' = "true"
              /\ \E l \in Loops :
                   /\ lpc'[l] = "begin"
                   /\ thread' = l
                   /\ \A k \in Loops \ {l} : lpc'[k] = lpc[k]]_vars

\* C5: a capture_once call that raised is reported by an on_error call after
\* which the loop is back at its while test, and the loop then attempts
\* another capture unless the stop signal gets set.
C5_FailedCaptureLoopContinues ==
    /\ [][\A l \in Loops :
            (lpc[l] = "on_error" /\ lpc'[l] # "on_error")
               => (lastCall' = "error" /\ lpc'[l] = "check")]_vars
    /\ \A l \in Loops :
         (lpc[l] = "on_error") ~> (lpc[l] = "capture" \/ stop_event)

\* a loop capturing again after its failed capture was reported
C5_Witness ==
    /\ lpc["t1"] = "capture"
    /\ lpc["t2"] = "unborn"
    /\ lastCall = "error"
    /\ ~stop_event
    /\ next_due["t1"] = 0 - 10

\* C6: a pass of the loop that reaches the deadline update less than I - 50 ms
\* after the pass's deadline (wake-up delay, capture and listener included)
\* sets the next deadline to the pass's deadline plus I; over consecutive
\* such passes the k-th deadline is loop start + k * I.
C6_DeadlinesOnSchedule ==
    [][\A l \in Loops :
         (ListenerCall(l) /\ 0 - next_due[l] < interval_seconds - Epsilon)
            => next_due'[l] = next_due[l] + interval_seconds]_vars

\* C6 as stated, with the premise on the length of capture_once alone: a pass
\* whose capture_once took less than I - 50 ms sets the next deadline to the
\* pass's deadline plus I.
C6_QuickCapturesOnSchedule ==
    [][\A l \in Loops :
         (ListenerCall(l) /\ cap_time[l] < interval_seconds - Epsilon)
            => next_due'[l] = next_due[l] + interval_seconds]_vars

\* a loop waiting for a deadline kept on schedule after a pass that ended
\* 10 units late
C6_Witness ==
    /\ lpc["t1"] = "wait"
    /\ interval_seconds = 20
    /\ next_due["t1"] = 10
    /\ lastCall = "sample"
    /\ lpc["t2"] = "unborn"

\* C15: the deadline update that follows a capture_once which took a whole
\* interval or more puts the next deadline exactly epsilon (50 ms) after the
\* update, which itself comes after the capture's end, and a pass begins its
\* capture only once its deadline is reached: the next capture starts at
\* least epsilon after the overrunning one finished, and the missed deadlines
\* are not made up by captures without a wait between them.
C15_NoCatchUpAfterOverrun ==
    [][\A l \in Loops :
         /\ (ListenerCall(l) /\ cap_time[l] >= interval_seconds)
                => next_due'[l] = Epsilon
         /\ (lpc[l] # "capture" /\ lpc'[l] = "capture") => next_due[l] <= 0]_vars

\* a capture_once that began on its deadline and took a whole interval has
\* returned; the listener call and the deadline update come next
C15_Witness ==
    /\ lpc["t1"] = "on_sample"
    /\ cap_time["t1"] = interval_seconds
    /\ next_due["t1"] = 0 - interval_seconds
    /\ lpc["t2"] = "unborn"

\* C36: at most one loop thread is alive at any time, and a loop thread for
\* which a stop call has returned does not begin another capture.
C36_OneLoopThreadAlive ==
    /\ Cardinality({l \in Loops : Alive(l)}) <= 1
    /\ \A l \in Loops : lpc[l] = "capture" => l \notin stopped

\* C37: a capture attempt ends in on_sample when capture_once returned and in
\* on_error when it raised; the on_sample call of an attempt is followed by
\* the deadline update, not by an on_error call, and on_error is called only
\* for an attempt whose capture_once raised.
C37_OneListenerCallPerAttempt ==
    [][\A l \in Loops :
         /\ (lpc[l] = "capture" /\ lpc'[l] # "capture")
               => lpc'[l] \in {"on_sample", "on_error"}
         /\ (lpc[l] = "on_sample" /\ lpc'[l] # "on_sample")
               => /\ on_sample = "none" \/ lastCall' = "sample"
                  /\ lpc'[l] = "check"
         /\ (lpc[l] = "on_error" /\ lpc'[l] # "on_error")
               => (on_error = "none" \/ lastCall' = "error")
         /\ (lpc'[l] = "on_error" /\ lpc[l] # "on_error")
               => lpc[l] = "capture"]_vars

-----------------------------------------------------------------------------
(* Claims about the capture interval, checked under IntervalSpec *)

\* C16: a capture loop runs with an interval of at least 1 second whatever
\* value start was given (start applies max(1.0, value) and no upper bound),
\* and a loop started by _start_capture runs with an interval within
\* [2, 300] seconds, the range _current_interval clamps the entry to.
C16_IntervalAtLeastOneSecond ==
    [][\A l \in Loops :
         /\ lpc'[l] \notin {"unborn", "exited"} => interval_seconds' >= MinInterval
         /\ (StartCapture(l) /\ started' = "true")
                => /\ interval_seconds' >= AppMinInterval
                   /\ interval_seconds' <= AppMaxInterval]_vars

\* C16 as stated: every running loop has an interval within [1, 300] seconds.
C16_IntervalWithinOneTo300 ==
    \A l \in Loops :
        Alive(l) => interval_seconds >= MinInterval /\ interval_seconds <= AppMaxInterval

\* a loop that start was asked to run every 450 s is waiting for a deadline
\* 450 s after its first capture
C16_Witness ==
    /\ lpc["t1"] = "wait"
    /\ interval_seconds = 9000
    /\ next_due["t1"] = 9000

\* C17: every deadline update of a loop that was started with the setting's
\* interval advances the deadline by the interval the setting gives at that
\* moment (the entry clamped by _current_interval), so that a change of the
\* setting made while the loop runs is in effect from the loop's next pass
\* on, without a restart.
C17_SettingChangeTakesEffect ==
    [][\A l \in Loops :
         (ListenerCall(l) /\ interval_seconds \in SettingIntervals)
            => next_due'[l] = Max(next_due[l] + current_interval(interval_var),
                                  Epsilon)]_vars

-----------------------------------------------------------------------------
(* dayflow-python: analysis/timeline_generator.py and core/storage.py.  Time
   is counted in chunk lengths; an LLM provider is configured. *)

\* the last clock value of a run
MaxPyTime == 4

\* how many batches are created in a run
MaxBatches == 2

\* the chunks the recorder stores: completed with its file, completed with the
\* file gone, failed
ChunkKinds == {[status |-> "completed", exists |-> TRUE],
               [status |-> "completed", exists |-> FALSE],
               [status |-> "failed", exists |-> TRUE]}

\* what analyze_video can return for one video, besides None: a dict with a
\* title, or a dict whose title is null (json.loads of the model's reply)
ResultKinds == {"card", "null_title"}

\* the lists analyze_batch can return for n videos: at most one result each
ResultLists(n) ==
    UNION {[1..k -> ResultKinds] : k \in 0..n}

RECURSIVE OrderByStart(_)
\* ORDER BY start_time
OrderByStart(rows) ==
    IF rows = {} THEN <<>>
    ELSE LET r == CHOOSE x \in rows : \A y \in rows : x.start_time <= y.start_time
         IN  <<r>> \o OrderByStart(rows \ {r})

\* Storage.get_chunks_for_batch
get_chunks_for_batch(start_time, end_time) ==
    OrderByStart({c \in chunks : /\ c.start_time >= start_time
                                 /\ c.end_time <= end_time
                                 /\ c.status = "completed"})

\* the chunks whose file exists, lines 120-121
VideoPaths(cs) == {i \in DOMAIN cs : cs[i].exists}

analyzeVars == <<apc, aBatch, aChunks, aResults, aIdx>>

\* the recorder stores the chunk that ends now (recorder.py)
RecordChunk(kind) ==
    /\ \A c \in chunks : c.end_time # pyNow
    /\ chunks' = chunks \cup {[start_time |-> pyNow - 1, end_time |-> pyNow,
                               status |-> kind.status, exists |-> kind.exists]}
    /\ UNCHANGED <<batches, timeline_cards, last_analysis_time, pyNow, analyzeVars,
                   aNow, dbVars, aiVars, stVars, capVars, cleanVars>>

\* the clock
PyTick ==
    /\ pyNow < MaxPyTime
    /\ pyNow' = pyNow + 1
    /\ UNCHANGED <<chunks, batches, timeline_cards, last_analysis_time, analyzeVars,
                   aNow, dbVars, aiVars, stVars, capVars, cleanVars>>

\* _analysis_loop, lines 73-80: an analysis is due and is called
LoopDue ==
    /\ apc["loop"] = "idle"
    /\ Len(batches) < MaxBatches
    /\ pyNow - last_analysis_time >= AnalysisInterval
    /\ aNow' = pyNow
    /\ apc' = [apc EXCEPT !["loop"] = "select"]
    /\ UNCHANGED <<chunks, batches, timeline_cards, last_analysis_time, pyNow, aBatch,
                   aChunks, aResults, aIdx, dbVars, aiVars, stVars,
                   capVars, cleanVars>>

\* analyze_now, lines 170-172: a thread is started
AnalyzeNow ==
    /\ apc["now"] = "idle"
    /\ Len(batches) < MaxBatches
    /\ apc' = [apc EXCEPT !["now"] = "select"]
    /\ UNCHANGED <<chunks, batches, timeline_cards, last_analysis_time, pyNow, aBatch,
                   aChunks, aResults, aIdx, aNow, dbVars, aiVars, stVars,
                   capVars, cleanVars>>

\* lines 92-103: the time range of the analysis
RangeStart == IF last_analysis_time = 0 THEN pyNow - AnalysisInterval
              ELSE last_analysis_time

\* a run that creates its batch before it looks for chunks
BatchBeforeSelect(a) ==
    /\ apc[a] = "select"
    /\ batches' = Append(batches, "pending")
    /\ aBatch' = [aBatch EXCEPT ![a] = Len(batches) + 1]
    /\ LET found == get_chunks_for_batch(RangeStart, pyNow) IN
         IF found = <<>>
         THEN /\ apc' = [apc EXCEPT ![a] = "return"]
              /\ UNCHANGED aChunks
         ELSE /\ aChunks' = [aChunks EXCEPT ![a] = found]
              /\ apc' = [apc EXCEPT ![a] = "analyze"]
    /\ UNCHANGED <<chunks, timeline_cards, last_analysis_time, pyNow, aResults, aIdx,
                   aNow, dbVars, aiVars, stVars, capVars, cleanVars>>

\* lines 92-116: the chunks of the range; none, return; else insert_batch
AnalyzeBegin(a) ==
    /\ apc[a] = "select"
    /\ LET found == get_chunks_for_batch(RangeStart, pyNow) IN
         IF found = <<>>
         THEN /\ apc' = [apc EXCEPT ![a] = "return"]
              /\ UNCHANGED <<batches, aBatch, aChunks>>
         ELSE /\ batches' = Append(batches, "pending")
              /\ aBatch' = [aBatch EXCEPT ![a] = Len(batches) + 1]
              /\ aChunks' = [aChunks EXCEPT ![a] = found]
              /\ apc' = [apc EXCEPT ![a] = "analyze"]
    /\ UNCHANGED <<chunks, timeline_cards, last_analysis_time, pyNow, aResults, aIdx,
                   aNow, dbVars, aiVars, stVars, capVars, cleanVars>>

\* lines 118-134: no video file, 'failed'; else analyze_batch, which returns
\* a result for some of the videos; no result, 'failed'
AnalyzeCall(a) ==
    /\ apc[a] = "analyze"
    /\ \E results \in ResultLists(Cardinality(VideoPaths(aChunks[a]))) :
         IF VideoPaths(aChunks[a]) = {} \/ results = <<>>
         THEN /\ batches' = [batches EXCEPT ![aBatch[a]] = "failed"]
              /\ apc' = [apc EXCEPT ![a] = "return"]
              /\ UNCHANGED <<aResults, aIdx>>
         ELSE /\ aResults' = [aResults EXCEPT ![a] = results]
              /\ aIdx' = [aIdx EXCEPT ![a] = 1]
              /\ apc' = [apc EXCEPT ![a] = "cards"]
              /\ UNCHANGED batches
    /\ UNCHANGED <<chunks, timeline_cards, last_analysis_time, pyNow, aBatch, aChunks,
                   aNow, dbVars, aiVars, stVars, capVars, cleanVars>>

\* line 138: chunks[min(i, len(chunks) - 1)], counted from 1
ChunkFor(a) ==
    aChunks[a][IF aIdx[a] <= Len(aChunks[a]) THEN aIdx[a] ELSE Len(aChunks[a])]

\* lines 137-161: one result; insert_timeline_card commits the card, or raises
\* on a null title (title TEXT NOT NULL) and lines 166-168 set 'failed'
InsertCard(a) ==
    /\ apc[a] = "cards"
    /\ aIdx[a] <= Len(aResults[a])
    /\ IF aResults[a][aIdx[a]] = "card"
       THEN /\ timeline_cards' = timeline_cards \cup
                 {[batch_id |-> aBatch[a], start_time |-> ChunkFor(a).start_time,
                   n |-> aIdx[a]]}
            /\ aIdx' = [aIdx EXCEPT ![a] = @ + 1]
            /\ UNCHANGED <<batches, apc>>
       ELSE /\ batches' = [batches EXCEPT ![aBatch[a]] = "failed"]
            /\ apc' = [apc EXCEPT ![a] = "return"]
            /\ UNCHANGED <<timeline_cards, aIdx>>
    /\ UNCHANGED <<chunks, last_analysis_time, pyNow, aBatch, aChunks, aResults, aNow,
                   dbVars, aiVars, stVars, capVars, cleanVars>>

\* line 163: every result is written, 'completed'
AnalyzeCompleted(a) ==
    /\ apc[a] = "cards"
    /\ aIdx[a] > Len(aResults[a])
    /\ batches' = [batches EXCEPT ![aBatch[a]] = "completed"]
    /\ apc' = [apc EXCEPT ![a] = "return"]
    /\ UNCHANGED <<chunks, timeline_cards, last_analysis_time, pyNow, aBatch, aChunks,
                   aResults, aIdx, aNow, dbVars, aiVars, stVars,
                   capVars, cleanVars>>

\* a return that puts the run's failed batch back to 'pending' for a retry
RequeueOnReturn(a) ==
    /\ apc[a] = "return"
    /\ apc' = [apc EXCEPT ![a] = "idle"]
    /\ batches' = [b \in DOMAIN batches |->
                     IF b = aBatch[a] /\ batches[b] = "failed" THEN "pending"
                     ELSE batches[b]]
    /\ aBatch' = [aBatch EXCEPT ![a] = 0]
    /\ aChunks' = [aChunks EXCEPT ![a] = <<>>]
    /\ aResults' = [aResults EXCEPT ![a] = <<>>]
    /\ aIdx' = [aIdx EXCEPT ![a] = 0]
    /\ last_analysis_time' = IF a = "loop" THEN aNow ELSE last_analysis_time
    /\ aNow' = IF a = "loop" THEN 0 ELSE aNow
    /\ UNCHANGED <<chunks, timeline_cards, pyNow, dbVars, aiVars, stVars, capVars,
                   cleanVars>>

\* _analyze_recent_chunks returns; the loop then stores last_analysis_time
\* (line 81), an analyze_now thread ends
AnalyzeReturn(a) ==
    /\ apc[a] = "return"
    /\ apc' = [apc EXCEPT ![a] = "idle"]
    /\ aBatch' = [aBatch EXCEPT ![a] = 0]
    /\ aChunks' = [aChunks EXCEPT ![a] = <<>>]
    /\ aResults' = [aResults EXCEPT ![a] = <<>>]
    /\ aIdx' = [aIdx EXCEPT ![a] = 0]
    /\ last_analysis_time' = IF a = "loop" THEN aNow ELSE last_analysis_time
    /\ aNow' = IF a = "loop" THEN 0 ELSE aNow
    /\ UNCHANGED <<chunks, batches, timeline_cards, pyNow, dbVars, aiVars, stVars,
                   capVars, cleanVars>>

BatchInit ==
    /\ InitDb /\ InitAI /\ InitStore /\ InitCapture /\ InitPy
    /\ screenshots = {}
    /\ files = {}
    /\ nextId = 1

BatchNext ==
    \/ \E kind \in ChunkKinds : RecordChunk(kind)
    \/ PyTick
    \/ LoopDue
    \/ AnalyzeNow
    \/ \E a \in Analyzers : AnalyzeBegin(a)
    \/ \E a \in Analyzers : AnalyzeCall(a)
    \/ \E a \in Analyzers : InsertCard(a)
    \/ \E a \in Analyzers : AnalyzeCompleted(a)
    \/ \E a \in Analyzers : AnalyzeReturn(a)

BatchSpec == BatchInit /\ [][BatchNext]_vars

\* C25: no chunk is analyzed by two batches, so no two cards of different
\* batches belong to one chunk (a chunk is known by its start_time).
C25_NoChunkInTwoBatches ==
    \A c1, c2 \in timeline_cards :
        c1.start_time = c2.start_time => c1.batch_id = c2.batch_id

\* The periodic analysis of dayflow-python next to the app's "generate AI
\* timeline" command on days without screenshots
NoDataNext ==
    \/ \E kind \in ChunkKinds : RecordChunk(kind)
    \/ PyTick
    \/ LoopDue
    \/ \E a \in Analyzers : AnalyzeBegin(a)
    \/ \E a \in Analyzers : AnalyzeCall(a)
    \/ \E a \in Analyzers : InsertCard(a)
    \/ \E a \in Analyzers : AnalyzeCompleted(a)
    \/ \E a \in Analyzers : AnalyzeReturn(a)
    \/ \E d \in Days : GenerateNoScreenshots(d)

NoDataSpec == BatchInit /\ [][NoDataNext]_vars

-----------------------------------------------------------------------------
(* Claims about batches and their cards, checked under BatchSpec *)

\* C9: a batch is created with status 'pending'; its status changes only
\* from 'pending' to 'completed' or 'failed', in the run that created it; a
\* batch that is 'completed' or 'failed' keeps that status, and no run takes
\* up an existing batch.
C9_BatchStatusOnce ==
    [][/\ \A b \in DOMAIN batches' :
            IF b \in DOMAIN batches
            THEN \/ batches'[b] = batches[b]
                 \/ /\ batches[b] = "pending"
                    /\ batches'[b] \in {"completed", "failed"}
                    /\ \E a \in Analyzers : aBatch[a] = b /\ apc'[a] = "return"
            ELSE batches'[b] = "pending"
       /\ DOMAIN batches \subseteq DOMAIN batches'
       /\ \A a \in Analyzers :
            (aBatch'[a] # aBatch[a] /\ aBatch'[a] # 0) => aBatch'[a] \notin DOMAIN batches
      ]_vars

\* one batch ended 'failed', a later one 'completed', and both threads are idle
C9_Witness ==
    /\ batches = <<"failed", "completed">>
    /\ \A a \in Analyzers : apc[a] = "idle"

\* C10: a batch whose status is 'failed' has no row in timeline_cards.
C10_FailedBatchOwnsNoCards ==
    \A b \in DOMAIN batches :
        batches[b] = "failed" => \A c \in timeline_cards : c.batch_id # b

\* C24: an analysis that finds no chunk in its range returns without a
\* batch and without a card, and never reaches the analyze_batch call, which
\* is only made with chunks; _generate_ai_timeline on a day without
\* screenshots starts no worker, queues no event and leaves the stored cards
\* and summaries as they are.
C24_NoDataStopsBeforeProvider ==
    [][/\ \A a \in Analyzers :
            /\ (/\ apc[a] = "select"
                /\ apc'[a] # "select"
                /\ get_chunks_for_batch(RangeStart, pyNow) = <<>>)
               => /\ apc'[a] = "return"
                  /\ batches' = batches
                  /\ timeline_cards' = timeline_cards
                  /\ aBatch'[a] = 0
            /\ (apc[a] # "analyze" /\ apc'[a] = "analyze") => aChunks'[a] # <<>>
       /\ (invocations' # invocations /\ \A d \in Days : ~HasScreenshots(d))
            => /\ wpc' = wpc
               /\ events' = events
               /\ ai_timeline_cards' = ai_timeline_cards
               /\ ai_daily_summaries' = ai_daily_summaries]_vars

\* chunks are stored but none is a completed chunk of the range: the run is
\* at its return with no batch; the app's command was refused once as well
C24_Witness ==
    /\ apc["loop"] = "return"
    /\ aBatch["loop"] = 0
    /\ chunks # {}
    /\ batches = <<>>
    /\ timeline_cards = {}
    /\ invocations = 1

\* the place, in the chunks of a run, of the chunk whose file is the i-th
\* entry of video_paths (lines 120-121 keep the chunks' order)
NthVideo(cs, i) ==
    CHOOSE k \in VideoPaths(cs) : Cardinality({j \in VideoPaths(cs) : j <= k}) = i

\* C39: a card written for the i-th result carries the start time of the
\* chunk whose video gave that result; stated for the runs in which every
\* video gave a result, where the i-th result is that of the i-th video.
C39_CardCarriesItsChunksTimes ==
    [][\A a \in Analyzers :
         (/\ apc[a] = "cards"
          /\ aIdx'[a] = aIdx[a] + 1
          /\ Len(aResults[a]) = Cardinality(VideoPaths(aChunks[a])))
            => \A card \in timeline_cards' \ timeline_cards :
                 card.start_time
                    = aChunks[a][NthVideo(aChunks[a], aIdx[a])].start_time]_vars

\* C40: a completed chunk that no analysis has selected can still be
\* selected: as long as no run has found a chunk, every completed chunk
\* starts at or after last_analysis_time, where the next analysis range
\* begins.
C40_NoCompletedChunkSkipped ==
    (/\ last_analysis_time # 0
     /\ batches = <<>>
     /\ \A a \in Analyzers : aChunks[a] = <<>>)
       => \A c \in chunks :
            c.status = "completed" => c.start_time >= last_analysis_time

-----------------------------------------------------------------------------
(* dayflow_windows/timeline.py: build_timeline_cards.  Capture times and
   the fallback_interval_seconds argument are counted in half seconds, so
   that int() and round() are computed; segment lengths, fallback, max_gap
   and duration_seconds are whole seconds as in the code. *)

\* how many records one call is given
MaxRecords == 3

\* 30 (seconds), line 18
MinMaxGap == 30
\* timedelta(seconds=5), line 19, in half seconds
MergeTolerance == 10

\* next_timestamp is None
NoNext == 0 - 1

\* int(round(x)) of a non-negative x given in half seconds: Python rounds a
\* half to the even neighbour
RoundHalfEven(h) ==
    IF h % 2 = 0 THEN h \div 2
    ELSE IF (h \div 2) % 2 = 0 THEN h \div 2 ELSE (h \div 2) + 1

\* line 17: fallback = max(1, int(round(fallback_interval_seconds)))
FallbackOf(fallback_interval_seconds) == Max(1, RoundHalfEven(fallback_interval_seconds))

\* line 18: max_gap = max(30, fallback * 2)
MaxGapOf(fallback) == Max(MinMaxGap, fallback * 2)

\* str.lower() on the letters used here
Lower(c) ==
    CASE c = "A" -> "a" [] c = "M" -> "m" [] c = "O" -> "o" [] c = "U" -> "u"
      [] c = "W" -> "w" [] OTHER -> c

LowerStr(s) == [i \in 1..Len(s) |-> Lower(s[i])]

\* runs of spaces become one space
RECURSIVE Squeeze(_)
Squeeze(s) ==
    IF Len(s) < 2 THEN s
    ELSE IF s[1] = " " /\ s[2] = " " THEN Squeeze(Tail(s))
    ELSE <<s[1]>> \o Squeeze(Tail(s))

\* a key text that keeps the letters' case
NormalizeKeepCase(value) == Squeeze(Strip(value))

\* _normalize: " ".join(value.lower().split())
normalize(value) == Squeeze(Strip(LowerStr(value)))

sUnknown == <<"u", "n", "k", "n", "o", "w", "n">>
sUnknownWindow == <<"U", "n", "k", "n", "o", "w", "n", " ", "W", "i", "n", "d", "o", "w">>

\* line 28: (record.process_name or "").strip() or "unknown"
ProcessNameOf(record) ==
    IF Strip(record.process_name) = <<>> THEN sUnknown ELSE Strip(record.process_name)

\* line 29: (record.window_title or "").strip() or "Unknown Window"
WindowTitleOf(record) ==
    IF Strip(record.window_title) = <<>> THEN sUnknownWindow
    ELSE Strip(record.window_title)

\* line 30
KeyOf(record) == <<normalize(ProcessNameOf(record)), normalize(WindowTitleOf(record))>>

\* a segment length that is not clamped to max_gap
RawGapSeconds(start, next_timestamp, fallback, max_gap) ==
    IF next_timestamp = NoNext THEN fallback
    ELSE LET raw_seconds == (next_timestamp - start) \div 2
         IN  IF raw_seconds <= 0 THEN fallback ELSE raw_seconds

\* _segment_duration_seconds, lines 80-92; capture times in half seconds
segment_duration_seconds(start, next_timestamp, fallback, max_gap) ==
    IF next_timestamp = NoNext THEN fallback
    ELSE LET raw_seconds == (next_timestamp - start) \div 2
         IN  IF raw_seconds <= 0 THEN fallback ELSE Min(raw_seconds, max_gap)

\* sorted(records, key=captured_at) is stable: a record goes after the
\* records that are not later than it
RECURSIVE InsertByCapturedAt(_, _)
InsertByCapturedAt(sorted, record) ==
    IF sorted = <<>> THEN <<record>>
    ELSE IF record.captured_at < Head(sorted).captured_at THEN <<record>> \o sorted
    ELSE <<Head(sorted)>> \o InsertByCapturedAt(Tail(sorted), record)

RECURSIVE SortByCapturedAt(_)
SortByCapturedAt(records) ==
    IF records = <<>> THEN <<>>
    ELSE InsertByCapturedAt(SortByCapturedAt(SubSeq(records, 1, Len(records) - 1)),
                            records[Len(records)])

\* capture times: 0 s, 0.5 s, 10 s, 20.5 s, 55 s
TimelineTimes == {0, 1, 20, 41, 110}
\* process names and window titles of the records; the first two have one
\* key, the third has neither name, the fourth has the names that
\* get_active_window_info (win32_active_window.py lines 45-52) stores when it
\* finds no window or no process, the process name capitalised
TimelineNames ==
    {[process_name |-> sWork, window_title |-> <<"a", " ", "b">>],
     [process_name |-> <<"w", "o", "r", "k", " ">>,
      window_title |-> <<"A", " ", " ", "b">>],
     [process_name |-> <<" ">>, window_title |-> <<>>],
     [process_name |-> <<"U", "n", "k", "n", "o", "w", "n">>,
      window_title |-> sUnknownWindow]}
TimelineRecords ==
    {[captured_at |-> t, process_name |-> n.process_name,
      window_title |-> n.window_title] : t \in TimelineTimes, n \in TimelineNames}
\* fallback_interval_seconds arguments: 2.5 s and 10 s
FallbackArgs == {5, 20}

RecordLists == UNION {[1..n -> TimelineRecords] : n \in 0..MaxRecords}

\* lines 13-22: the empty input returns [], any other is sorted
BuildBegin(records, fallback_interval_seconds) ==
    /\ tlpc = "idle"
    /\ tl_ordered' = SortByCapturedAt(records)
    /\ tl_fallback' = FallbackOf(fallback_interval_seconds)
    /\ tl_grouped' = <<>>
    /\ tl_cards' = <<>>
    /\ tl_index' = 1
    /\ tlpc' = IF records = <<>> THEN "done" ELSE "loop"
    /\ UNCHANGED <<dbVars, wpc, wDay, wCards, wSummary, wIdx, wGen, events, uipc, uiDay,
                   uiRows, invocations, history, fnVars, interval_var, stVars, capVars,
                   pyVars>>

\* a merge test that does not look at the key
MergesByTime(key, start, open) == start <= open.end + MergeTolerance

\* line 32: grouped[-1]["key"] == key and start <= grouped[-1]["end"] + merge_tolerance
Merges(key, start, open) == open.key = key /\ start <= open.end + MergeTolerance

\* a merge that leaves the segment's end where it was
KeepEnd(open_end, end) == open_end

\* line 33: max(grouped[-1]["end"], end)
MergedEnd(open_end, end) == Max(open_end, end)

\* lines 23-46: one record of the loop is merged into the last group or
\* starts a new group
GroupRecord ==
    /\ tlpc = "loop"
    /\ tl_index <= Len(tl_ordered)
    /\ LET record == tl_ordered[tl_index]
           start == record.captured_at
           next_timestamp == IF tl_index + 1 <= Len(tl_ordered)
                             THEN tl_ordered[tl_index + 1].captured_at ELSE NoNext
           segment_seconds == segment_duration_seconds(start, next_timestamp,
                                  tl_fallback, MaxGapOf(tl_fallback))
           end == start + 2 * segment_seconds
           key == KeyOf(record)
           last == Len(tl_grouped)
       IN  IF tl_grouped # <<>> /\ Merges(key, start, tl_grouped[last])
           THEN tl_grouped' =
                  [tl_grouped EXCEPT ![last] =
                     [key |-> tl_grouped[last].key,
                      start |-> tl_grouped[last].start,
                      end |-> MergedEnd(tl_grouped[last].end, end),
                      process_name |-> tl_grouped[last].process_name,
                      window_title |-> tl_grouped[last].window_title,
                      screenshot_count |-> tl_grouped[last].screenshot_count + 1]]
           ELSE tl_grouped' =
                  Append(tl_grouped,
                     [key |-> key, start |-> start, end |-> end,
                      process_name |-> ProcessNameOf(record),
                      window_title |-> WindowTitleOf(record),
                      screenshot_count |-> 1])
    /\ tl_index' = tl_index + 1
    /\ UNCHANGED <<dbVars, wpc, wDay, wCards, wSummary, wIdx, wGen, events, uipc, uiDay,
                   uiRows, invocations, history, fnVars, interval_var, tlpc, tl_ordered,
                   tl_fallback, tl_cards, stVars, capVars, pyVars>>

\* lines 48-62: one card per group
CardOf(group) ==
    [start |-> group.start, end |-> group.end,
     duration_seconds |-> Max(1, RoundHalfEven(group.end - group.start)),
     process_name |-> group.process_name, window_title |-> group.window_title,
     screenshot_count |-> group.screenshot_count]

BuildCards ==
    /\ tlpc = "loop"
    /\ tl_index > Len(tl_ordered)
    /\ tl_cards' = [i \in 1..Len(tl_grouped) |-> CardOf(tl_grouped[i])]
    /\ tlpc' = "done"
    /\ UNCHANGED <<dbVars, wpc, wDay, wCards, wSummary, wIdx, wGen, events, uipc, uiDay,
                   uiRows, invocations, history, fnVars, interval_var, tl_ordered, tl_fallback,
                   tl_index, tl_grouped, stVars, capVars, pyVars>>

\* line 64: return cards; the call is over
BuildReturn ==
    /\ tlpc = "done"
    /\ tlpc' = "idle"
    /\ tl_ordered' = <<>>
    /\ tl_fallback' = 0
    /\ tl_index' = 0
    /\ tl_grouped' = <<>>
    /\ tl_cards' = <<>>
    /\ UNCHANGED <<dbVars, wpc, wDay, wCards, wSummary, wIdx, wGen, events, uipc, uiDay,
                   uiRows, invocations, history, fnVars, interval_var, stVars, capVars,
                   pyVars>>

\* a call of build_timeline_cards (app.py _refresh_timeline and others)
BuildCall ==
    /\ tlpc = "idle"
    /\ \E records \in RecordLists, f \in FallbackArgs : BuildBegin(records, f)

TimelineNext ==
    \/ BuildCall
    \/ GroupRecord
    \/ BuildCards
    \/ BuildReturn

TimelineSpec == Init /\ [][TimelineNext]_vars

-----------------------------------------------------------------------------
(* Claims about build_timeline_cards, checked under TimelineSpec *)

\* the records of the call have one key and each follows the one before it
\* by at most max_gap
OneKeyWithinMaxGap ==
    /\ tl_ordered # <<>>
    /\ \A i \in 1..Len(tl_ordered) : KeyOf(tl_ordered[i]) = KeyOf(tl_ordered[1])
    /\ \A i \in 1..(Len(tl_ordered) - 1) :
         tl_ordered[i + 1].captured_at - tl_ordered[i].captured_at
            <= 2 * MaxGapOf(tl_fallback)

\* last capture time - first capture time, in half seconds
Span == tl_ordered[Len(tl_ordered)].captured_at - tl_ordered[1].captured_at

\* C19: for n >= 1 records with one key, each at most max_gap after the one
\* before, build_timeline_cards returns one card with screenshot_count = n
\* and duration_seconds = max(1, round((last - first) + fallback)), where
\* fallback = max(1, round(fallback_interval_seconds)) is a whole number of
\* seconds and round is to the nearest whole second.
C19_OneSegmentForContiguousRun ==
    (tlpc = "done" /\ OneKeyWithinMaxGap)
       => /\ Len(tl_cards) = 1
          /\ tl_cards[1].screenshot_count = Len(tl_ordered)
          /\ tl_cards[1].duration_seconds
                = Max(1, RoundHalfEven(Span + 2 * tl_fallback))

\* C19 as stated: the one card's duration_seconds is exactly
\* (last - first) + fallback, with no rounding of the capture times.
C19_DurationIsSpanPlusFallback ==
    (tlpc = "done" /\ OneKeyWithinMaxGap)
       => /\ Len(tl_cards) = 1
          /\ tl_cards[1].screenshot_count = Len(tl_ordered)
          /\ 2 * tl_cards[1].duration_seconds = Span + 2 * tl_fallback

\* three records of one key at 0 s, 10 s and 20.5 s with fallback 10 gave
\* one card of 30 seconds
C19_Witness ==
    /\ tlpc = "done"
    /\ OneKeyWithinMaxGap
    /\ Len(tl_ordered) = 3
    /\ tl_ordered[2].captured_at = 20
    /\ Span = 41
    /\ tl_fallback = 10
    /\ tl_cards[1].duration_seconds = 30

\* C20: a record of the loop is merged into the open segment only when its
\* key is the open segment's key, and the merge leaves the segment's key,
\* process and title alone; a record with another key (or the first record)
\* starts a new segment that carries the record's own key, process and
\* title; earlier segments are not touched, and every card reports its
\* segment's process and title. Hence all members of a segment share one key
\* and a segment reports the process and title of its first sample.
C20_NoMergeAcrossKeys ==
    [][/\ (tlpc = "loop" /\ tl_index' = tl_index + 1)
          => LET record == tl_ordered[tl_index]
                 n == Len(tl_grouped)
             IN  /\ \A i \in 1..(n - 1) : tl_grouped'[i] = tl_grouped[i]
                 /\ Len(tl_grouped') = n
                       => /\ n > 0
                          /\ KeyOf(record) = tl_grouped[n].key
                          /\ tl_grouped'[n].key = tl_grouped[n].key
                          /\ tl_grouped'[n].process_name = tl_grouped[n].process_name
                          /\ tl_grouped'[n].window_title = tl_grouped[n].window_title
                 /\ (n = 0 \/ KeyOf(record) # tl_grouped[n].key)
                       => /\ Len(tl_grouped') = n + 1
                          /\ tl_grouped'[n + 1].key = KeyOf(record)
                          /\ tl_grouped'[n + 1].process_name = ProcessNameOf(record)
                          /\ tl_grouped'[n + 1].window_title = WindowTitleOf(record)
                          /\ tl_grouped'[n + 1].screenshot_count = 1
       /\ (tlpc = "loop" /\ tlpc' = "done")
          => /\ Len(tl_cards') = Len(tl_grouped)
             /\ \A i \in 1..Len(tl_grouped) :
                  /\ tl_cards'[i].process_name = tl_grouped[i].process_name
                  /\ tl_cards'[i].window_title = tl_grouped[i].window_title]_vars

\* three records captured at the same instant: two spellings of one key, then
\* a record without process and title; the result is a card of two under the
\* first spelling and a card of one under "unknown"
C20_Witness ==
    /\ tlpc = "done"
    /\ Len(tl_ordered) = 3
    /\ \A i \in 1..3 : tl_ordered[i].captured_at = 20
    /\ Len(tl_cards) = 2
    /\ tl_cards[1].screenshot_count = 2
    /\ tl_cards[1].process_name = sWork
    /\ tl_ordered[2].process_name # sWork
    /\ tl_cards[2].process_name = sUnknown

\* the two records of the call have one key and the second is captured more
\* than max_gap + 5 s after the first
TwoSameKeyFarApart ==
    /\ Len(tl_ordered) = 2
    /\ KeyOf(tl_ordered[1]) = KeyOf(tl_ordered[2])
    /\ tl_ordered[2].captured_at - tl_ordered[1].captured_at
          > 2 * MaxGapOf(tl_fallback) + MergeTolerance

\* C21: a record with the key of the open segment is merged into it iff its
\* capture time is at most the segment's current end plus 5 s; when it is not
\* merged, the open segment ends max_gap seconds after the record before (the
\* clamped length, not the raw gap) and the record starts a new segment. Two
\* same-key records more than max_gap + 5 s apart give two cards, the first
\* with duration_seconds = max_gap.
C21_SameKeyMergeIffWithinTolerance ==
    [][/\ (tlpc = "loop" /\ tl_index' = tl_index + 1 /\ tl_grouped # <<>>
            /\ KeyOf(tl_ordered[tl_index]) = tl_grouped[Len(tl_grouped)].key)
          => LET record == tl_ordered[tl_index]
                 n == Len(tl_grouped)
                 open == tl_grouped[n]
             IN  /\ Len(tl_grouped') = n
                       <=> record.captured_at <= open.end + MergeTolerance
                 /\ Len(tl_grouped') # n
                       => /\ Len(tl_grouped') = n + 1
                          /\ tl_grouped'[n] = open
                          /\ tl_grouped'[n + 1].start = record.captured_at
                          /\ open.end = tl_ordered[tl_index - 1].captured_at
                                           + 2 * MaxGapOf(tl_fallback)
       /\ (tlpc = "loop" /\ tlpc' = "done" /\ TwoSameKeyFarApart)
          => /\ Len(tl_cards') = 2
             /\ tl_cards'[1].duration_seconds = MaxGapOf(tl_fallback)
             /\ tl_cards'[1].end = tl_cards'[1].start + 2 * MaxGapOf(tl_fallback)
             /\ tl_cards'[2].start = tl_ordered[2].captured_at]_vars

\* two same-key records 55 s apart with max_gap = 30: two cards, the first of
\* 30 s
C21_Witness ==
    /\ tlpc = "done"
    /\ TwoSameKeyFarApart
    /\ tl_ordered[1].captured_at = 0
    /\ tl_ordered[2].captured_at = 110
    /\ Len(tl_cards) = 2
    /\ tl_cards[1].duration_seconds = 30
    /\ tl_cards[1].screenshot_count = 1

\* C31: the segment end computed for a record that has a later record is
\* start + min(next.captured_at - start, max_gap), whatever the gap, equal
\* capture times included; the last record's is start + fallback. (The end
\* is seen where the record opens a segment, and as the larger of the two
\* ends where it is merged.)
C31_EndIsStartPlusClampedGap ==
    [][(tlpc = "loop" /\ tl_index' = tl_index + 1)
          => LET record == tl_ordered[tl_index]
                 start == record.captured_at
                 end == IF tl_index < Len(tl_ordered)
                        THEN start + Min(tl_ordered[tl_index + 1].captured_at - start,
                                         2 * MaxGapOf(tl_fallback))
                        ELSE start + 2 * tl_fallback
                 n == Len(tl_grouped)
             IN  IF Len(tl_grouped') = n
                 THEN tl_grouped'[n].end = Max(tl_grouped[n].end, end)
                 ELSE tl_grouped'[n + 1].end = end]_vars

\* the segment that the i-th record of the call went into: the cards'
\* screenshot counts partition the ordered records
RECURSIVE SegmentFrom(_, _)
SegmentFrom(i, g) ==
    IF g >= Len(tl_grouped) \/ i <= tl_grouped[g].screenshot_count THEN g
    ELSE SegmentFrom(i - tl_grouped[g].screenshot_count, g + 1)

SegmentOf(i) == SegmentFrom(i, 1)

\* a name that is missing or empty
Blank(name) == Strip(name) = <<>>

\* C33: two records whose names differ only in letter case and in runs of
\* blanks have one key; a record without a process name is keyed "unknown"
\* and one without a window title "unknown window", and a segment such a
\* record opens reports "unknown" / "Unknown Window"; a record that lacks a
\* name shares a segment only with records that lack the same name or carry
\* a spelling of "unknown" / "Unknown Window" in its place.
C33_KeyIgnoresCaseAndBlanks ==
    tlpc = "done"
       => \A i, j \in 1..Len(tl_ordered) :
            LET r == tl_ordered[i]
                q == tl_ordered[j]
            IN  /\ (/\ LowerStr(Squeeze(Strip(r.process_name)))
                          = LowerStr(Squeeze(Strip(q.process_name)))
                    /\ LowerStr(Squeeze(Strip(r.window_title)))
                          = LowerStr(Squeeze(Strip(q.window_title))))
                      => KeyOf(r) = KeyOf(q)
                /\ Blank(r.process_name) => KeyOf(r)[1] = sUnknown
                /\ Blank(r.window_title) => KeyOf(r)[2] = LowerStr(sUnknownWindow)
                /\ (Blank(r.process_name) /\ (i = 1 \/ SegmentOf(i - 1) # SegmentOf(i)))
                      => tl_cards[SegmentOf(i)].process_name = sUnknown
                /\ (Blank(r.window_title) /\ (i = 1 \/ SegmentOf(i - 1) # SegmentOf(i)))
                      => tl_cards[SegmentOf(i)].window_title = sUnknownWindow
                /\ (SegmentOf(i) = SegmentOf(j) /\ Blank(r.process_name))
                      => \/ Blank(q.process_name)
                         \/ LowerStr(Squeeze(Strip(q.process_name))) = sUnknown
                /\ (SegmentOf(i) = SegmentOf(j) /\ Blank(r.window_title))
                      => \/ Blank(q.window_title)
                         \/ LowerStr(Squeeze(Strip(q.window_title)))
                               = LowerStr(sUnknownWindow)

\* C33 as stated: a record that lacks a process name or a window title never
\* shares a segment with a record that has both, non-empty.
C33_BlankNeverMergedWithNamed ==
    tlpc = "done"
       => \A i, j \in 1..Len(tl_ordered) :
            (/\ SegmentOf(i) = SegmentOf(j)
             /\ Blank(tl_ordered[i].process_name) \/ Blank(tl_ordered[i].window_title))
               => ~(/\ ~Blank(tl_ordered[j].process_name)
                    /\ ~Blank(tl_ordered[j].window_title))

\* two spellings of one key half a second apart went into one segment and a
\* record without names, captured with the second, into a segment of its own
\* that reports "unknown" / "Unknown Window"
C33_Witness ==
    /\ tlpc = "done"
    /\ Len(tl_ordered) = 3
    /\ tl_ordered[1].captured_at = 0
    /\ tl_ordered[2].captured_at = 1
    /\ tl_ordered[3].captured_at = 1
    /\ tl_ordered[1].process_name # tl_ordered[2].process_name
    /\ tl_ordered[1].window_title # tl_ordered[2].window_title
    /\ Blank(tl_ordered[3].process_name)
    /\ Blank(tl_ordered[3].window_title)
    /\ SegmentOf(1) = 1
    /\ SegmentOf(2) = 1
    /\ SegmentOf(3) = 2
    /\ tl_cards[2].process_name = sUnknown
    /\ tl_cards[2].window_title = sUnknownWindow

\* C38: the cards build_timeline_cards returns are in the order of their
\* start times, every card ends after it starts, and every card ends no later
\* than the next card starts.
C38_CardsOrderedAndDisjoint ==
    tlpc = "done"
       => /\ \A i \in 1..Len(tl_cards) : tl_cards[i].end > tl_cards[i].start
          /\ \A i \in 1..(Len(tl_cards) - 1) :
               /\ tl_cards[i].start <= tl_cards[i + 1].start
               /\ tl_cards[i].end <= tl_cards[i + 1].start

-----------------------------------------------------------------------------
(* dayflow_windows/ai.py: the module-level helpers, called one at a time.
   hpc names the helper while it runs and how it ended afterwards. *)

\* how many entries the "cards" value of one reply has at most
MaxCards == 3

eHour24  == [start |-> <<"2", "4", ":", "0", "0">>, end |-> s0930, title |-> sWork]
eMin60   == [start |-> s0900, end |-> <<"0", "9", ":", "6", "0">>, title |-> sWork]
eNoTitle == [start |-> s0900, end |-> s0930, title |-> <<" ">>]
eNoEnd   == [start |-> s0900, title |-> sWork]

\* the entries a "cards" list is made of
RawEntries == {eWork, eMail, eBad, eText, eColon, eHour24, eMin60, eNoTitle, eNoEnd}

\* the values of "cards" in a parsed reply: a list, or something else
RawCards ==
    {[islist |-> FALSE, cards |-> <<>>]}
    \cup {[islist |-> TRUE, cards |-> c] :
            c \in UNION {[1..n -> RawEntries] : n \in 0..MaxCards}}

\* _normalize_cards, lines 419-442, of any value
normalize_cards(raw_cards) ==
    IF raw_cards.islist THEN NormalizeCards(raw_cards.cards)
    ELSE [raised |-> FALSE, cards |-> <<>>]

\* generate, line 62: _normalize_cards(parsed.get("cards")) is called
NormalizeCall ==
    /\ hpc = "idle"
    /\ \E raw_cards \in RawCards : hArg' = raw_cards
    /\ hpc' = "normalize"
    /\ UNCHANGED <<dbVars, wpc, wDay, wCards, wSummary, wIdx, wGen, events, uipc, uiDay,
                   uiRows, invocations, history, interval_var, tlpc, tl_ordered,
                   tl_fallback, tl_index, tl_grouped, tl_cards, log_output, hRet,
                   stVars, capVars, pyVars>>

\* the call returns its list or ends with the ValueError of int()
NormalizeRun ==
    /\ hpc = "normalize"
    /\ LET result == normalize_cards(hArg)
       IN  IF result.raised
           THEN hpc' = "normalize_raised" /\ hRet' = <<>>
           ELSE hpc' = "normalize_returned" /\ hRet' = result.cards
    /\ UNCHANGED <<dbVars, wpc, wDay, wCards, wSummary, wIdx, wGen, events, uipc, uiDay,
                   uiRows, invocations, history, interval_var, tlpc, tl_ordered,
                   tl_fallback, tl_index, tl_grouped, tl_cards, log_output, hArg,
                   stVars, capVars, pyVars>>

\* how a helper call ends
HelperEnded ==
    {"normalize_raised", "normalize_returned", "sample_returned", "parse_raised",
     "parse_returned"}

\* the caller is done with the result
HelperReturn ==
    /\ hpc \in HelperEnded
    /\ hpc' = "idle"
    /\ hArg' = <<>>
    /\ hRet' = <<>>
    /\ UNCHANGED <<dbVars, wpc, wDay, wCards, wSummary, wIdx, wGen, events, uipc, uiDay,
                   uiRows, invocations, history, interval_var, tlpc, tl_ordered,
                   tl_fallback, tl_index, tl_grouped, tl_cards, log_output, stVars,
                   capVars, pyVars>>

NormalizeNext ==
    \/ NormalizeCall
    \/ NormalizeRun
    \/ HelperReturn

NormalizeSpec == Init /\ [][NormalizeNext]_vars

\* generate, line 39: max_items=20
SampleCap == 20
\* how many screenshots the day has at most
MaxRows == 45

\* list_screenshots_for_date: n rows with distinct ids, the ids of deleted
\* rows missing
DayRows == {[i \in 1..n |-> [id |-> first + gap * (i - 1)]] :
               n \in 0..MaxRows, first \in {1, 7}, gap \in {1, 3}}

\* a sample that is cut to max_items and keeps the row the cut ends with
SliceOnly(rows, max_items) ==
    IF Len(rows) <= max_items THEN rows
    ELSE LET step == Max(1, Len(rows) \div max_items)
             sliced == [k \in 1..(((Len(rows) - 1) \div step) + 1) |->
                           rows[(k - 1) * step + 1]]
         IN  IF Len(sliced) > max_items THEN SubSeq(sliced, 1, max_items) ELSE sliced

\* _sample_screenshots, lines 298-307
sample_screenshots(rows, max_items) ==
    IF Len(rows) <= max_items THEN rows
    ELSE LET step == Max(1, Len(rows) \div max_items)
             \* rows[::step]
             sliced == [k \in 1..(((Len(rows) - 1) \div step) + 1) |->
                           rows[(k - 1) * step + 1]]
             sampled == IF Len(sliced) > max_items THEN SubSeq(sliced, 1, max_items)
                        ELSE sliced
         IN  IF sampled # <<>> /\ sampled[Len(sampled)].id # rows[Len(rows)].id
             THEN [sampled EXCEPT ![Len(sampled)] = rows[Len(rows)]]
             ELSE sampled

\* generate, line 39, with the rows of the selected day
SampleCall ==
    /\ hpc = "idle"
    /\ \E rows \in DayRows : hArg' = rows
    /\ hpc' = "sample"
    /\ UNCHANGED <<dbVars, wpc, wDay, wCards, wSummary, wIdx, wGen, events, uipc, uiDay,
                   uiRows, invocations, history, interval_var, tlpc, tl_ordered,
                   tl_fallback, tl_index, tl_grouped, tl_cards, log_output, hRet,
                   stVars, capVars, pyVars>>

SampleRun ==
    /\ hpc = "sample"
    /\ hRet' = sample_screenshots(hArg, SampleCap)
    /\ hpc' = "sample_returned"
    /\ UNCHANGED <<dbVars, wpc, wDay, wCards, wSummary, wIdx, wGen, events, uipc, uiDay,
                   uiRows, invocations, history, interval_var, tlpc, tl_ordered,
                   tl_fallback, tl_index, tl_grouped, tl_cards, log_output, hArg,
                   stVars, capVars, pyVars>>

SampleNext ==
    \/ SampleCall
    \/ SampleRun
    \/ HelperReturn

SampleSpec == Init /\ [][SampleNext]_vars

\* how long the text of a reply is at most
MaxText == 4

\* The characters of a reply: blank, a letter of prose, the brackets of JSON,
\* a digit, and "k", which stands for an object member's name and colon
TextChars == {" ", "x", "{", "}", "[", "]", "1", "k"}

ReplyTexts == UNION {[1..n -> TextChars] : n \in 0..MaxText}

NoJson == [ok |-> FALSE, type |-> "none", rest |-> <<>>]

\* the JSON value a text starts with, blanks skipped: a number, an object
\* with no or one member, a list with no or one element
RECURSIVE ParseValue(_)
ParseValue(text) ==
    LET s == LStrip(text)
    IN  IF s = <<>> THEN NoJson
        ELSE IF Head(s) = "1"
        THEN LET digits == CHOOSE n \in 1..Len(s) :
                              /\ \A i \in 1..n : s[i] = "1"
                              /\ n = Len(s) \/ s[n + 1] # "1"
             IN  [ok |-> TRUE, type |-> "number", rest |-> SubSeq(s, digits + 1, Len(s))]
        ELSE IF Head(s) = "{"
        THEN LET t == LStrip(Tail(s))
             IN  IF t = <<>> THEN NoJson
                 ELSE IF Head(t) = "}"
                 THEN [ok |-> TRUE, type |-> "object", rest |-> Tail(t)]
                 ELSE IF Head(t) = "k"
                 THEN LET member == ParseValue(Tail(t))
                          u == LStrip(member.rest)
                      IN  IF member.ok /\ u # <<>> /\ Head(u) = "}"
                          THEN [ok |-> TRUE, type |-> "object", rest |-> Tail(u)]
                          ELSE NoJson
                 ELSE NoJson
        ELSE IF Head(s) = "["
        THEN LET t == LStrip(Tail(s))
             IN  IF t = <<>> THEN NoJson
                 ELSE IF Head(t) = "]"
                 THEN [ok |-> TRUE, type |-> "list", rest |-> Tail(t)]
                 ELSE LET element == ParseValue(t)
                          u == LStrip(element.rest)
                      IN  IF element.ok /\ u # <<>> /\ Head(u) = "]"
                          THEN [ok |-> TRUE, type |-> "list", rest |-> Tail(u)]
                          ELSE NoJson
        ELSE NoJson

\* json.loads: the value when the whole text is one JSON value, the JSON
\* text kept without its blanks
json_loads(text) ==
    LET v == ParseValue(text)
    IN  IF v.ok /\ LStrip(v.rest) = <<>>
        THEN [ok |-> TRUE, type |-> v.type,
              value |-> SelectSeq(text, LAMBDA c : c # " ")]
        ELSE [ok |-> FALSE, type |-> "none", value |-> <<>>]

\* str.find and str.rfind, counted from 1; 0 when the character is absent
Find(s, c) ==
    IF \E i \in 1..Len(s) : s[i] = c
    THEN CHOOSE i \in 1..Len(s) : s[i] = c /\ \A j \in 1..(i - 1) : s[j] # c
    ELSE 0

RFind(s, c) ==
    IF \E i \in 1..Len(s) : s[i] = c
    THEN CHOOSE i \in 1..Len(s) : s[i] = c /\ \A j \in (i + 1)..Len(s) : s[j] # c
    ELSE 0

\* _parse_ai_json, lines 402-416: the value returned, or raised
parse_ai_json(text) ==
    LET trimmed == Strip(text)
        whole == json_loads(trimmed)
        start == Find(trimmed, "{")
        end == RFind(trimmed, "}")
        span == json_loads(SubSeq(trimmed, start, end))
    IN  IF trimmed = <<>> THEN [raised |-> TRUE, type |-> "none", value |-> <<>>]
        ELSE IF whole.ok THEN [raised |-> FALSE, type |-> whole.type, value |-> whole.value]
        ELSE IF start = 0 \/ end = 0 \/ start >= end
        THEN [raised |-> TRUE, type |-> "none", value |-> <<>>]
        ELSE IF span.ok THEN [raised |-> FALSE, type |-> span.type, value |-> span.value]
        ELSE [raised |-> TRUE, type |-> "none", value |-> <<>>]

\* _call_gemini_json / _call_openai_style_json: _parse_ai_json(text) is called
\* with the text of the reply
ParseCall ==
    /\ hpc = "idle"
    /\ \E text \in ReplyTexts : hArg' = text
    /\ hpc' = "parse"
    /\ UNCHANGED <<dbVars, wpc, wDay, wCards, wSummary, wIdx, wGen, events, uipc, uiDay,
                   uiRows, invocations, history, interval_var, tlpc, tl_ordered,
                   tl_fallback, tl_index, tl_grouped, tl_cards, log_output, hRet,
                   stVars, capVars, pyVars>>

ParseRun ==
    /\ hpc = "parse"
    /\ LET result == parse_ai_json(hArg)
       IN  IF result.raised
           THEN hpc' = "parse_raised" /\ hRet' = <<>>
           ELSE hpc' = "parse_returned"
                /\ hRet' = [type |-> result.type, value |-> result.value]
    /\ UNCHANGED <<dbVars, wpc, wDay, wCards, wSummary, wIdx, wGen, events, uipc, uiDay,
                   uiRows, invocations, history, interval_var, tlpc, tl_ordered,
                   tl_fallback, tl_index, tl_grouped, tl_cards, log_output, hArg,
                   stVars, capVars, pyVars>>

ParseNext ==
    \/ ParseCall
    \/ ParseRun
    \/ HelperReturn

ParseSpec == Init /\ [][ParseNext]_vars

-----------------------------------------------------------------------------
(* Claims about the helpers of ai.py *)

\* C22: _normalize_cards never raises, whatever list of candidate cards the
\* reply holds.
C22_NormalizeCardsNeverRaises == hpc # "normalize_raised"

\* the place of a row in the list the call was given
PlaceIn(rows, row) == CHOOSE i \in 1..Len(rows) : rows[i] = row

\* C23: _sample_screenshots(rows, 20) returns rows itself when rows has at
\* most 20 entries; for a longer list it returns at most 20 rows, each one a
\* row of the input, in the input's order and none twice, the first being the
\* input's first row and the last the input's last row.
C23_SampleIsSubsequenceWithEnds ==
    hpc = "sample_returned"
       => IF Len(hArg) <= SampleCap THEN hRet = hArg
          ELSE /\ Len(hRet) <= SampleCap
               /\ \A k \in 1..Len(hRet) : \E i \in 1..Len(hArg) : hArg[i] = hRet[k]
               /\ \A j, k \in 1..Len(hRet) :
                    j < k => PlaceIn(hArg, hRet[j]) < PlaceIn(hArg, hRet[k])
               /\ hRet[1] = hArg[1]
               /\ hRet[Len(hRet)] = hArg[Len(hArg)]

\* 41 rows: every second row is taken, the 21 taken are cut to 20 and the
\* last of them is replaced by the 41st row
C23_Witness ==
    /\ hpc = "sample_returned"
    /\ Len(hArg) = 41
    /\ Len(hRet) = 20
    /\ hRet[19] = hArg[37]
    /\ hRet[20] = hArg[41]

\* C32: when more than SampleCap rows are sampled, there is one stride s such
\* that the k-th selected row is the row at position (k - 1) * s of the input,
\* except that the last selected row is the last input row, and every input
\* row lies within s positions of a selected row.
C32_FixedStrideCoversRange ==
    (hpc = "sample_returned" /\ Len(hArg) > SampleCap)
       => \E s \in 1..Len(hArg) :
            /\ \A k \in 1..(Len(hRet) - 1) :
                 /\ (k - 1) * s + 1 <= Len(hArg)
                 /\ hRet[k] = hArg[(k - 1) * s + 1]
            /\ hRet[Len(hRet)] = hArg[Len(hArg)]
            /\ \A i \in 1..Len(hArg) :
                 \E k \in 1..Len(hRet) :
                    /\ PlaceIn(hArg, hRet[k]) - i <= s
                    /\ i - PlaceIn(hArg, hRet[k]) <= s

\* C29: whenever _parse_ai_json returns, what it returns is a JSON object.
C29_ParseReturnsAnObject ==
    hpc = "parse_returned" => hRet.type = "object"

-----------------------------------------------------------------------------
(* dayflow_windows/app.py: the event queue between the background threads
   and _drain_events.  uipc is "idle" while the after(250) timer is pending,
   "draining" inside the loop of _drain_events and "drain_raised" once the
   callback has ended with an exception. *)

\* how many events are put in a run
MaxPuts == 3

\* the threads that put events: the capture loop's listeners, the
\* manual-capture worker and the AI worker
Producers == {"cap", "man", "ai"}

\* the kinds of event a producer puts
KindsOf(p) == IF p = "ai" THEN {"ai_done", "ai_error"} ELSE {"sample", "error"}

\* the events of producer p in a list
OfProducer(list, p) == SelectSeq(list, LAMBDA ev : ev.producer = p)

\* self.events.put((kind, payload)), lines 1686-1688, 1761-1763, 2076-2080; the
\* queue is unbounded; n numbers the producer's events
Put(p, kind) ==
    /\ Len(events) + Len(log_output) < MaxPuts
    /\ events' = Append(events,
                   [kind |-> kind, producer |-> p,
                    n |-> Len(OfProducer(log_output \o events, p)) + 1])
    /\ UNCHANGED <<dbVars, wpc, wDay, wCards, wSummary, wIdx, wGen, uipc, uiDay,
                   uiRows, invocations, history, interval_var, tlpc, tl_ordered,
                   tl_fallback, tl_index, tl_grouped, tl_cards, fnVars, stVars,
                   capVars, pyVars>>

\* the after(250) timer fires and _drain_events is called
DrainBegin ==
    /\ uipc = "idle"
    /\ uipc' = "draining"
    /\ UNCHANGED <<dbVars, wpc, wDay, wCards, wSummary, wIdx, wGen, events, uiDay,
                   uiRows, invocations, history, interval_var, tlpc, tl_ordered,
                   tl_fallback, tl_index, tl_grouped, tl_cards, fnVars, stVars,
                   capVars, pyVars>>

\* lines 2083-2134: get_nowait returns the oldest event and its branch runs
DrainHandle ==
    /\ uipc = "draining"
    /\ events # <<>>
    /\ events' = Tail(events)
    /\ log_output' = Append(log_output, Head(events))
    /\ UNCHANGED <<dbVars, wpc, wDay, wCards, wSummary, wIdx, wGen, uipc, uiDay,
                   uiRows, invocations, history, interval_var, tlpc, tl_ordered,
                   tl_fallback, tl_index, tl_grouped, tl_cards, hpc, hArg, hRet,
                   stVars, capVars, pyVars>>

\* lines 2098-2106: the branch of a "sample" or "ai_done" event raises after
\* its log line (_maybe_cleanup_storage, _refresh_timeline or
\* _refresh_ai_timeline fails); the exception leaves _drain_events before
\* line 2137
DrainHandleRaises ==
    /\ uipc = "draining"
    /\ events # <<>>
    /\ Head(events).kind \in {"sample", "ai_done"}
    /\ events' = Tail(events)
    /\ log_output' = Append(log_output, Head(events))
    /\ uipc' = "drain_raised"
    /\ UNCHANGED <<dbVars, wpc, wDay, wCards, wSummary, wIdx, wGen, uiDay,
                   uiRows, invocations, history, interval_var, tlpc, tl_ordered,
                   tl_fallback, tl_index, tl_grouped, tl_cards, hpc, hArg, hRet,
                   stVars, capVars, pyVars>>

\* lines 2085-2087 and 2136-2137: the queue is empty, the loop ends and the
\* next call is scheduled
DrainEnd ==
    /\ uipc = "draining"
    /\ events = <<>>
    /\ uipc' = "idle"
    /\ UNCHANGED <<dbVars, wpc, wDay, wCards, wSummary, wIdx, wGen, events, uiDay,
                   uiRows, invocations, history, interval_var, tlpc, tl_ordered,
                   tl_fallback, tl_index, tl_grouped, tl_cards, fnVars, stVars,
                   capVars, pyVars>>

EventNext ==
    \/ \E p \in Producers : \E kind \in KindsOf(p) : Put(p, kind)
    \/ DrainBegin
    \/ DrainHandle
    \/ DrainHandleRaises
    \/ DrainEnd

EventSpec == Init /\ [][EventNext]_vars

-----------------------------------------------------------------------------
(* Claims about the event queue, checked under EventSpec *)

\* C28: every event that is put is handled by _drain_events: while the queue
\* holds an event, _drain_events is running or scheduled to run.
C28_QueuedEventsAreDrained ==
    events # <<>> => uipc \in {"idle", "draining"}

\* what holds of the queue itself: the handled events followed by the queued
\* ones are, for each producer, the events it put, in the order it put them
EventsInProducerOrder ==
    \A p \in Producers :
        LET mine == OfProducer(log_output \o events, p)
        IN  \A i \in 1..Len(mine) : mine[i].n = i

-----------------------------------------------------------------------------
(* dayflow-python: core/cleanup.py, CleanupService.  Time is counted in hours
   since a midnight, so that the hourly wait, the hour of the day and the 12
   and 24 hour tests are computed.  A chunk's start_time and end_time are
   given two hours apart so that a cutoff can fall between them; the code
   compares them with the cutoff as numbers. *)

\* 24 * 3600 seconds, line 51; also the hours of a day (timedelta(days=...))
DayHours == 24
\* 12 * 3600 seconds, line 63
HalfDayHours == 12
\* current_hour == 3, line 61
CleanupHour == 3
\* config retention_days: the lowest value of the settings slider
RetentionDays == 1

\* the last clock value of a run
MaxWall == 100
\* how many chunks the store holds when the service starts
MaxChunks == 2

\* datetime.now().hour
HourOf(t) == t % DayHours

\* the hour the service is started at: 02:00 and 04:00 of the third day
StartHours == {50, 52}

\* the chunks in the store when the service starts
CleanupChunks ==
    {[start_time |-> 10, end_time |-> 12, status |-> "completed", exists |-> TRUE],
     [start_time |-> 12, end_time |-> 14, status |-> "completed", exists |-> FALSE],
     [start_time |-> 14, end_time |-> 16, status |-> "failed", exists |-> TRUE],
     [start_time |-> 25, end_time |-> 27, status |-> "completed", exists |-> TRUE],
     [start_time |-> 40, end_time |-> 42, status |-> "completed", exists |-> TRUE]}

\* everything of the analysis side, which the cleanup leaves alone
analysisVars == <<batches, timeline_cards, last_analysis_time, pyNow, apc, aBatch,
                  aChunks, aResults, aIdx, aNow>>

\* start, lines 22-31
CleanupStart ==
    /\ clean_pc = "off"
    /\ clean_pc' = "begin"
    /\ clean_stop' = FALSE
    /\ UNCHANGED <<wall, clean_now, last_cleanup_time, cutoff_time, clean_chunks,
                   clean_files, clean_rows, chunks, analysisVars, dbVars, aiVars,
                   stVars, capVars>>

\* stop, lines 33-42: the event is set; the thread ends at its next wait
CleanupStop ==
    /\ clean_pc # "off"
    /\ ~clean_stop
    /\ clean_stop' = TRUE
    /\ UNCHANGED <<clean_pc, wall, clean_now, last_cleanup_time, cutoff_time,
                   clean_chunks, clean_files, clean_rows, chunks, analysisVars, dbVars,
                   aiVars, stVars, capVars>>

\* _cleanup_loop, lines 47-52: now is read once; a cleanup more than 24 hours
\* ago, or none, runs the cleanup at once
CleanupLoopEnter ==
    /\ clean_pc = "begin"
    /\ clean_now' = wall
    /\ clean_pc' = IF wall - last_cleanup_time > DayHours THEN "scan" ELSE "wait"
    /\ UNCHANGED <<wall, clean_stop, last_cleanup_time, cutoff_time, clean_chunks,
                   clean_files, clean_rows, chunks, analysisVars, dbVars, aiVars,
                   stVars, capVars>>

\* lines 54-57: the event is set, the loop ends
CleanupLoopBreak ==
    /\ clean_pc = "wait"
    /\ clean_stop
    /\ clean_pc' = "off"
    /\ UNCHANGED <<wall, clean_now, clean_stop, last_cleanup_time, cutoff_time,
                   clean_chunks, clean_files, clean_rows, chunks, analysisVars, dbVars,
                   aiVars, stVars, capVars>>

\* line 56: wait(timeout=3600) runs out
CleanupLoopWait ==
    /\ clean_pc = "wait"
    /\ ~clean_stop
    /\ wall < MaxWall
    /\ wall' = wall + 1
    /\ clean_pc' = "check"
    /\ UNCHANGED <<clean_now, clean_stop, last_cleanup_time, cutoff_time, clean_chunks,
                   clean_files, clean_rows, chunks, analysisVars, dbVars, aiVars,
                   stVars, capVars>>

\* lines 60-63: the hour is 3 and now, the value read when the loop was
\* entered, is more than 12 hours after the last cleanup
CheckAtThree(now) ==
    HourOf(wall) = CleanupHour /\ now - last_cleanup_time > HalfDayHours

\* lines 59-64
CleanupLoopCheck ==
    /\ clean_pc = "check"
    /\ clean_pc' = IF CheckAtThree(clean_now) THEN "scan" ELSE "wait"
    /\ UNCHANGED <<wall, clean_now, clean_stop, last_cleanup_time, cutoff_time,
                   clean_chunks, clean_files, clean_rows, chunks, analysisVars, dbVars,
                   aiVars, stVars, capVars>>

\* _run_cleanup, lines 70-78: the cutoff and the chunks to unlink
RunCleanupScan ==
    /\ clean_pc = "scan"
    /\ cutoff_time' = wall - DayHours * RetentionDays
    /\ clean_chunks' = get_chunks_for_batch(0, wall - DayHours * RetentionDays)
    /\ clean_files' = {}
    /\ clean_rows' = {}
    /\ clean_pc' = "files"
    /\ UNCHANGED <<wall, clean_now, clean_stop, last_cleanup_time, chunks, analysisVars,
                   dbVars, aiVars, stVars, capVars>>

\* lines 80-89: one chunk of the loop; a file that exists is unlinked, or
\* unlink raises and the error is printed
RunCleanupFile ==
    /\ clean_pc = "files"
    /\ clean_chunks # <<>>
    /\ LET chunk == Head(clean_chunks) IN
         \/ /\ chunk.exists
            /\ chunks' = (chunks \ {chunk}) \cup {[chunk EXCEPT !.exists = FALSE]}
            /\ clean_files' = clean_files \cup {chunk.start_time}
         \/ /\ chunk.exists
            /\ UNCHANGED <<chunks, clean_files>>
         \/ /\ ~chunk.exists
            /\ UNCHANGED <<chunks, clean_files>>
    /\ clean_chunks' = Tail(clean_chunks)
    /\ UNCHANGED <<clean_pc, wall, clean_now, clean_stop, last_cleanup_time, cutoff_time,
                   clean_rows, analysisVars, dbVars, aiVars, stVars, capVars>>

\* Storage.delete_old_chunks, lines 127-134: DELETE ... WHERE start_time < ?
delete_old_chunks(before_timestamp) == {c \in chunks : c.start_time < before_timestamp}

\* lines 91-99: the rows are deleted and last_cleanup_time is stored
RunCleanupRows ==
    /\ clean_pc = "files"
    /\ clean_chunks = <<>>
    /\ clean_rows' = delete_old_chunks(cutoff_time)
    /\ chunks' = chunks \ delete_old_chunks(cutoff_time)
    /\ last_cleanup_time' = wall
    /\ clean_pc' = "wait"
    /\ UNCHANGED <<wall, clean_now, clean_stop, cutoff_time, clean_chunks, clean_files,
                   analysisVars, dbVars, aiVars, stVars, capVars>>

\* the store holds some chunks, last_cleanup_time is unset or 13 or 2 hours
\* back, and the service has not been started
CleanupInit ==
    /\ InitDb /\ InitAI /\ InitStore /\ InitCapture
    /\ screenshots = {}
    /\ files = {}
    /\ nextId = 1
    /\ chunks \in {cs \in SUBSET CleanupChunks : Cardinality(cs) <= MaxChunks}
    /\ batches = <<>>
    /\ timeline_cards = {}
    /\ last_analysis_time = 0
    /\ pyNow = AnalysisInterval
    /\ apc = [a \in Analyzers |-> "idle"]
    /\ aBatch = [a \in Analyzers |-> 0]
    /\ aChunks = [a \in Analyzers |-> <<>>]
    /\ aResults = [a \in Analyzers |-> <<>>]
    /\ aIdx = [a \in Analyzers |-> 0]
    /\ aNow = 0
    /\ clean_pc = "off"
    /\ wall \in StartHours
    /\ last_cleanup_time \in {0, wall - 13, wall - 2}
    /\ clean_now = 0
    /\ clean_stop = FALSE
    /\ cutoff_time = 0
    /\ clean_chunks = <<>>
    /\ clean_files = {}
    /\ clean_rows = {}

CleanupNext ==
    \/ CleanupStart
    \/ CleanupStop
    \/ CleanupLoopEnter
    \/ CleanupLoopBreak
    \/ CleanupLoopWait
    \/ CleanupLoopCheck
    \/ RunCleanupScan
    \/ RunCleanupFile
    \/ RunCleanupRows

CleanupSpec == CleanupInit /\ [][CleanupNext]_vars

-----------------------------------------------------------------------------
(* Claims about CleanupService, checked under CleanupSpec *)

\* C34: once a cleanup run has deleted its rows, no chunk that started before
\* the cutoff is in the store, the file of every chunk whose row the run
\* deleted is gone (unlinked by the run, or missing before), and every file
\* the run unlinked belongs to a chunk whose row it deleted.
C34_RowsAndFilesOfTheSameChunks ==
    clean_pc \in {"wait", "check", "off"}
       => /\ \A c \in chunks : c.start_time >= cutoff_time
          /\ \A r \in clean_rows : ~r.exists
          /\ \A f \in clean_files : \E r \in clean_rows : r.start_time = f

\* C35: while the service runs and has cleaned once since it was started, the
\* last cleanup is never more than two days back: the cleanup is run again at
\* the 3 o'clock check of each following day.
C35_CleanupRecursDaily ==
    (clean_pc \notin {"off", "begin"} /\ ~clean_stop
        /\ last_cleanup_time >= clean_now)
       => wall - last_cleanup_time <= 2 * DayHours

=============================================================================
